---- MODULE Spec2Model ----
(***************************************************************************)
(* Citicious: citation verification engine.                                *)
(*                                                                         *)
(* The module models the DOI verification state machine of the three       *)
(* implementations found in the repository:                                *)
(*   "backend"   CitationValidatorService.validateByDoi (tagged lookups),  *)
(*   "extension" CiticiousAPI.checkByDoi,                                  *)
(*   "legacy"    the older CitationValidatorService.validateByDoi which    *)
(*               works on the null-returning CrossRefService.getWork.      *)
(*                                                                         *)
(* Further specifications over the same variables:                         *)
(*   SpecFull    the route POST /check/full (retraction check, then        *)
(*               validate),                                                *)
(*   SpecFuzzy   validateByMetadata, the verification of a citation        *)
(*               without DOI by title/author search,                       *)
(*   SpecValidate validate, which takes either of the two paths,           *)
(*   SpecBatch   the batch entry points and the service worker's cache,    *)
(*   SpecStatus  functions applied on their own: getMetadataBasedStatus,   *)
(*               calculateConfidence, the cache keys, the badge and banner *)
(*               functions, the DOI normalizers, scanPageForDois,          *)
(*   SpecCheck   the extension's checkCitation with its DOI and URL paths, *)
(*   SpecScan    the content script's scanPage, with weak fairness of the  *)
(*               await of the reply.                                       *)
(*                                                                         *)
(* Conventions.  A JavaScript string is modelled by the set of its words   *)
(* (the empty set is the empty string, which is falsy); a missing optional *)
(* field is the empty string, the empty list or the year 0, exactly the    *)
(* values the code treats as absent.  A number in [0,1] is an integer in   *)
(* 0..10000 (1.0 is 10000).  undefined / null is the record Undefined.     *)
(* A match score is the exact fraction <<numerator, denominator>>;         *)
(* floating-point rounding is not modelled.                                *)
(***************************************************************************)
EXTENDS Integers, Sequences, FiniteSets, TLC

VARIABLES
    impl,            \* which implementation runs the verification
    citation,        \* the CitationInput under verification
    pc,              \* position of the async function: idle / crossref / openalex / batch /
                     \* single / url / check_batch / returned / threw
    requests,        \* the source requests issued so far, in order
    inflight,        \* the source requests that were issued and have not completed
    crossrefResp,    \* HTTP exchange with CrossRef (NoResponse before it completes)
    openalexResp,    \* HTTP exchange with OpenAlex (NoResponse before it completes)
    crossrefResult,  \* value returned by the CrossRef source client
    openalexResult,  \* value returned by the OpenAlex source client
    result,          \* value returned by the verification (NoResult before it returns)
    bestMatch,       \* the { work, score } chosen by the best-match selection (null before)
    retraction,      \* outcome of RetractionService.check (NotChecked before it completes)
    args,            \* arguments of a function applied on its own (NoArgs otherwise)
    resultsCache,    \* the service worker's Map from cache key to FullCheckResult
    job,             \* locals of the batch check in progress (NoJob otherwise)
    calls,           \* number of messages the service worker has handled
    checkedCitations, \* the content script's Map from citation id to CheckedCitation
    topBanner        \* the element #citicious-top-banner of the page

pageVars == <<checkedCitations, topBanner>>

batchVars == <<resultsCache, job, calls, pageVars>>

vars == <<impl, citation, pc, requests, inflight, crossrefResp, openalexResp,
          crossrefResult, openalexResult, result, bestMatch, retraction, args, batchVars>>

-----------------------------------------------------------------------------
(* Bounds and input domains *)

\* largest difference between a provided and a retrieved publication year
MaxYearGap == 3

BaseYear == 2020

Undefined == [defined |-> FALSE]

Implementations == {"backend", "extension", "legacy"}

\* titles: identical, one word dropped (similarity 2/3), unrelated (similarity 0)
TitleFull == {"deep", "learning", "models"}
TitlePart == {"deep", "learning"}
TitleOther == {"ghost"}
AuthorA == {"smith"}
AuthorB == {"jones"}
JournalA == {"nature"}
JournalB == {"science"}

\* words of at most two characters are dropped by the word-overlap similarity
ShortWords == {"of", "a"}

Citations ==
    [doi : {"10.1/x"},
     title : {{}, TitleFull},
     authors : {<<>>, <<AuthorA>>},
     year : {0, BaseYear},
     journal : {{}, JournalA}]

WorkYears == {0, BaseYear, BaseYear + 1, BaseYear + MaxYearGap}

\* the update-to / relation markers a CrossRef message can carry
RetractionMarkers ==
    {[updateTo |-> <<>>, relation |-> {}],
     [updateTo |-> <<"retraction">>, relation |-> {}],
     [updateTo |-> <<"expression-of-concern">>, relation |-> {}],
     [updateTo |-> <<"correction">>, relation |-> {}],
     [updateTo |-> <<>>, relation |-> {"is-retracted-by"}]}

\* the `message` object of a CrossRef response
CrossRefMessages ==
    {[defined |-> TRUE, title |-> t, authors |-> a, year |-> y, journal |-> j,
      updateTo |-> m.updateTo, relation |-> m.relation] :
        t \in {{}, TitleFull, TitlePart, TitleOther},
        a \in {<<>>, <<AuthorA>>, <<AuthorB>>},
        y \in WorkYears,
        j \in {{}, JournalA, JournalB},
        m \in RetractionMarkers}

\* the body of an OpenAlex work response
OpenAlexBodies ==
    {[defined |-> TRUE, title |-> t, authors |-> a, year |-> y, journal |-> j] :
        t \in {{}, TitleFull, TitlePart, TitleOther},
        a \in {<<>>, <<AuthorA>>, <<AuthorB>>},
        y \in WorkYears,
        j \in {{}, JournalA, JournalB}}

\* An HTTP exchange: the fetch throws (network failure, timeout), or it
\* answers with a status; a 2xx answer has a body that is not JSON, is the
\* JSON value null, or is a JSON object whose payload is `payload`
\* (Undefined when the object has no `message` member).
NoResponse == [kind |-> "none"]
NetworkFailure == [kind |-> "throw"]
HttpError(s) == [kind |-> "http", status |-> s, body |-> "none", payload |-> Undefined]
HttpOk(b, p) == [kind |-> "http", status |-> 200, body |-> b, payload |-> p]

FailedResponses ==
    {NetworkFailure, HttpError(404), HttpError(500),
     HttpOk("not_json", Undefined), HttpOk("json_null", Undefined)}

CrossRefResponses ==
    FailedResponses \cup {HttpOk("object", Undefined)}
        \cup {HttpOk("object", m) : m \in CrossRefMessages}

OpenAlexResponses ==
    FailedResponses \cup {HttpOk("object", w) : w \in OpenAlexBodies}

ResponseOk(resp) == resp.kind = "http" /\ resp.status >= 200 /\ resp.status <= 299

-----------------------------------------------------------------------------
(* Source clients: the value each getWork returns for an HTTP exchange *)

Found(w) == [status |-> "found", work |-> w]
NotFound == [status |-> "not_found", work |-> Undefined]
Error == [status |-> "error", work |-> Undefined]
NotQueried == [status |-> "none", work |-> Undefined]

\* CrossRefService.transformResponse: the CrossRefWork built from a message;
\* the update-to and relation members are not copied.
CrossRefTransformResponse(message) ==
    [defined |-> TRUE, title |-> message.title, authors |-> message.authors,
     year |-> message.year, journal |-> message.journal]

\* OpenAlexService.transformResponse
OpenAlexTransformResponse(work) ==
    [defined |-> TRUE, title |-> work.title, authors |-> work.authors,
     year |-> work.year, journal |-> work.journal]

\* CrossRefService.getWork (tagged variant).  Everything after the fetch is
\* inside the try block: a body that is not JSON, `null.message` and
\* transformResponse(undefined) all throw into the catch clause.
CrossRefGetWork(resp) ==
    IF resp.kind = "throw" THEN Error
    ELSE IF resp.status = 404 THEN NotFound
    ELSE IF ~ResponseOk(resp) THEN Error
    ELSE IF resp.body # "object" THEN Error
    ELSE IF ~resp.payload.defined THEN Error
    ELSE Found(CrossRefTransformResponse(resp.payload))

\* OpenAlexService.getWork: the body itself is the work.
OpenAlexGetWork(resp) ==
    IF resp.kind = "throw" THEN Error
    ELSE IF resp.status = 404 THEN NotFound
    ELSE IF ~ResponseOk(resp) THEN Error
    ELSE IF resp.body # "object" THEN Error
    ELSE Found(OpenAlexTransformResponse(resp.payload))

\* CrossRefService.getWork (older variant): null for a 404 and for every
\* failure alike, the CrossRefWork otherwise.
LegacyNull == [status |-> "null", work |-> Undefined]
LegacyWork(w) == [status |-> "work", work |-> w]

LegacyCrossRefGetWork(resp) ==
    IF resp.kind = "throw" THEN LegacyNull
    ELSE IF resp.status = 404 THEN LegacyNull
    ELSE IF ~ResponseOk(resp) THEN LegacyNull
    ELSE IF resp.body # "object" THEN LegacyNull
    ELSE IF ~resp.payload.defined THEN LegacyNull
    ELSE LegacyWork(CrossRefTransformResponse(resp.payload))

\* extension checkCrossRef: returns data.message as it is; only a body that
\* is not JSON or is null throws inside the try block.
checkCrossRef(resp) ==
    IF resp.kind = "throw" THEN Error
    ELSE IF resp.status = 404 THEN NotFound
    ELSE IF ~ResponseOk(resp) THEN Error
    ELSE IF resp.body = "not_json" THEN Error
    ELSE IF resp.body = "json_null" THEN Error
    ELSE Found(resp.payload)

\* extension checkOpenAlex: returns the parsed body as it is, null included.
checkOpenAlex(resp) ==
    IF resp.kind = "throw" THEN Error
    ELSE IF resp.status = 404 THEN NotFound
    ELSE IF ~ResponseOk(resp) THEN Error
    ELSE IF resp.body = "not_json" THEN Error
    ELSE Found(resp.payload)

-----------------------------------------------------------------------------
(* Metadata comparison *)

\* stringSimilarity: word-overlap ratio as the pair <<numerator, denominator>>.
\* The backend imports its stringSimilarity from the string-similarity-js
\* package; the same word-overlap ratio stands for it here.  Letter case is
\* not modelled: two strings with the same words are the same string.
stringSimilarity(a, b) ==
    IF a = b THEN <<1, 1>>
    ELSE IF a = {} \/ b = {} THEN <<0, 1>>
    ELSE LET aWords == a \ ShortWords
             bWords == b \ ShortWords
             intersection == aWords \cap bWords
             union == aWords \cup bWords
         IN  IF Cardinality(union) > 0
             THEN <<Cardinality(intersection), Cardinality(union)>>
             ELSE <<0, 1>>

\* sim < n / 10
SimBelow(sim, n) == sim[1] * 10 < sim[2] * n

Abs(n) == IF n < 0 THEN -n ELSE n

Discrepancy(f, s) == [field |-> f, severity |-> s]

TitleDiscrepancy(provided, actual) ==
    IF provided.title # {} /\ actual.title # {}
       /\ SimBelow(stringSimilarity(provided.title, actual.title), 9)
    THEN <<Discrepancy("title",
             IF SimBelow(stringSimilarity(provided.title, actual.title), 5)
             THEN "critical" ELSE "major")>>
    ELSE <<>>

\* mutant: an unknown year is compared like a year
YearDiscrepancyOfUnknown(provided, actual) ==
    IF provided.year # actual.year
    THEN <<Discrepancy("year",
             IF Abs(provided.year - actual.year) > 2 THEN "major" ELSE "minor")>>
    ELSE <<>>

YearDiscrepancy(provided, actual) ==
    IF provided.year # 0 /\ actual.year # 0 /\ provided.year # actual.year
    THEN <<Discrepancy("year",
             IF Abs(provided.year - actual.year) > 2 THEN "major" ELSE "minor")>>
    ELSE <<>>

AuthorsDiscrepancy(provided, actual) ==
    IF Len(provided.authors) > 0 /\ Len(actual.authors) > 0
       /\ SimBelow(stringSimilarity(provided.authors[1], actual.authors[1]), 7)
    THEN <<Discrepancy("authors", "major")>>
    ELSE <<>>

JournalDiscrepancy(provided, actual) ==
    IF provided.journal # {} /\ actual.journal # {}
       /\ SimBelow(stringSimilarity(provided.journal, actual.journal), 7)
    THEN <<Discrepancy("journal", "minor")>>
    ELSE <<>>

\* CitationValidatorService.compareMetadata
compareMetadata(provided, actual) ==
    TitleDiscrepancy(provided, actual) \o YearDiscrepancy(provided, actual)
        \o AuthorsDiscrepancy(provided, actual) \o JournalDiscrepancy(provided, actual)

\* extension compareMetadata: title, year and first author only
extCompareMetadata(provided, actual) ==
    TitleDiscrepancy(provided, actual) \o YearDiscrepancy(provided, actual)
        \o AuthorsDiscrepancy(provided, actual)

HasSeverity(discrepancies, s) ==
    \E i \in 1..Len(discrepancies) : discrepancies[i].severity = s

Penalty(d) ==
    IF d.severity = "critical" THEN 5000
    ELSE IF d.severity = "major" THEN 2000
    ELSE IF d.severity = "minor" THEN 500
    ELSE 0

RECURSIVE SumPenalties(_)
SumPenalties(discrepancies) ==
    IF discrepancies = <<>> THEN 0
    ELSE Penalty(Head(discrepancies)) + SumPenalties(Tail(discrepancies))

Max(a, b) == IF a > b THEN a ELSE b
Min(a, b) == IF a < b THEN a ELSE b

\* mutant: the penalties are subtracted without the final clamp
calculateConfidenceUnclamped(discrepancies) ==
    10000 - SumPenalties(discrepancies)

\* CitationValidatorService.calculateConfidence
calculateConfidence(discrepancies) ==
    Max(0, Min(10000, 10000 - SumPenalties(discrepancies)))

\* CitationValidatorService.getStatus (older generation)
getStatus(confidence, discrepancies) ==
    IF HasSeverity(discrepancies, "critical") THEN "fake"
    ELSE IF confidence >= 8000 /\ ~HasSeverity(discrepancies, "major") THEN "verified"
    ELSE IF confidence >= 5000 THEN "suspicious"
    ELSE "fake"

\* CitationValidatorService.getMetadataBasedStatus
getMetadataBasedStatus(confidence, discrepancies) ==
    LET hasCritical == HasSeverity(discrepancies, "critical")
        hasMajor == HasSeverity(discrepancies, "major")
        titleDiscrepancy == \E i \in 1..Len(discrepancies) :
            discrepancies[i].field = "title" /\ discrepancies[i].severity = "critical"
        yearDiscrepancy == \E i \in 1..Len(discrepancies) : discrepancies[i].field = "year"
        authorDiscrepancy == \E i \in 1..Len(discrepancies) : discrepancies[i].field = "authors"
    IN  IF confidence >= 8000 /\ ~hasCritical /\ ~hasMajor THEN "verified"
        ELSE IF titleDiscrepancy THEN "fake-likely"
        ELSE IF hasMajor /\ (yearDiscrepancy \/ authorDiscrepancy) THEN "fake-probably"
        ELSE IF confidence >= 7000 THEN "verified"
        ELSE "skip"

\* MatchedData built from a source record
crossrefToMatchedData(work) ==
    [defined |-> TRUE, title |-> work.title, authors |-> work.authors,
     year |-> work.year, journal |-> work.journal]

openalexToMatchedData(work) ==
    [defined |-> TRUE, title |-> work.title, authors |-> work.authors,
     year |-> work.year, journal |-> work.journal]

-----------------------------------------------------------------------------
(* Verification results *)

NoResult == Undefined
Null == Undefined

\* what an async function does when it is resumed: it returns a value,
\* throws, or suspends on the request to OpenAlex
Return(r) == [kind |-> "return", value |-> r]
Throw == [kind |-> "throw", value |-> NoResult]
AwaitOpenAlex == [kind |-> "await", value |-> NoResult]

ValidationResponse(e, conf, src, md, ds, st) ==
    [exists |-> e, confidence |-> conf, source |-> src, matchedData |-> md,
     discrepancies |-> ds, status |-> st]

\* validateByDoi: "DOI FOUND ... -> VERIFIED (regardless of metadata)"
VerifiedResponse(c, src, matchedData) ==
    ValidationResponse(TRUE, 10000, src, matchedData,
                       compareMetadata(c, matchedData), "verified")

\* validateByDoi: the DOI is confirmed absent by a 404
DoiNotFoundResponse ==
    ValidationResponse(FALSE, 0, "none", Undefined,
                       <<Discrepancy("doi", "critical")>>, "fake-likely")

\* mutant: two failed lookups reported like a confirmed absence
SkipResponseAsFake ==
    ValidationResponse(FALSE, 0, "none", Undefined,
                       <<Discrepancy("doi", "critical")>>, "fake-likely")

\* validateByDoi: "Both APIs had errors -> can't determine, skip"
SkipResponse ==
    ValidationResponse(FALSE, 0, "none", Undefined, <<>>, "skip")

\* mutant: a 404 from CrossRef is turned into the verdict at once
validateByDoiAfterCrossRefEager(c, cr) ==
    IF cr.status = "found"
    THEN Return(VerifiedResponse(c, "crossref", crossrefToMatchedData(cr.work)))
    ELSE IF cr.status = "not_found"
    THEN Return(DoiNotFoundResponse)
    ELSE AwaitOpenAlex

\* validateByDoi up to the request to OpenAlex
validateByDoiAfterCrossRef(c, cr) ==
    IF cr.status = "found"
    THEN Return(VerifiedResponse(c, "crossref", crossrefToMatchedData(cr.work)))
    ELSE AwaitOpenAlex

\* mutant: after a CrossRef error a 404 from OpenAlex is not believed
validateByDoiAfterOpenAlexErrorSkips(c, cr, oa) ==
    IF cr.status = "not_found"
    THEN IF oa.status = "found"
         THEN Return(VerifiedResponse(c, "openalex", openalexToMatchedData(oa.work)))
         ELSE Return(DoiNotFoundResponse)
    ELSE IF oa.status = "found"
         THEN Return(VerifiedResponse(c, "openalex", openalexToMatchedData(oa.work)))
         ELSE Return(SkipResponse)

\* validateByDoi from the answer of OpenAlex on
validateByDoiAfterOpenAlex(c, cr, oa) ==
    IF cr.status = "not_found"
    THEN IF oa.status = "found"
         THEN Return(VerifiedResponse(c, "openalex", openalexToMatchedData(oa.work)))
         ELSE IF oa.status = "not_found"
         THEN Return(DoiNotFoundResponse)
         ELSE Return(DoiNotFoundResponse)
    ELSE IF oa.status = "found"
         THEN Return(VerifiedResponse(c, "openalex", openalexToMatchedData(oa.work)))
         ELSE IF oa.status = "not_found"
         THEN Return(DoiNotFoundResponse)
         ELSE Return(SkipResponse)

-----------------------------------------------------------------------------
(* Extension: CiticiousAPI.checkByDoi *)

FullCheckResult(st, retracted, details, v) ==
    [status |-> st, isRetracted |-> retracted, retractionDetails |-> details,
     validation |-> v]

RetractionTypes == {"retraction", "withdrawal"}
RetractionRelations == {"is-retracted-by", "has-retraction"}

\* checkRetractionStatus: the first retraction marker of the CrossRef
\* message, or null; it reads the message only.
checkRetractionStatus(crossrefWork) ==
    IF \E i \in 1..Len(crossrefWork.updateTo) : crossrefWork.updateTo[i] \in RetractionTypes
    THEN LET i == CHOOSE k \in 1..Len(crossrefWork.updateTo) :
                    /\ crossrefWork.updateTo[k] \in RetractionTypes
                    /\ \A j \in 1..(k - 1) : crossrefWork.updateTo[j] \notin RetractionTypes
         IN  [defined |-> TRUE, retractionNature |-> crossrefWork.updateTo[i]]
    ELSE IF crossrefWork.relation \cap RetractionRelations # {}
    THEN [defined |-> TRUE, retractionNature |-> "Retraction"]
    ELSE Null

ExtSkipResult == FullCheckResult("skip", FALSE, Null, Null)

\* mutant: the fake-likely result returned without its validation record
ExtFakeLikelyWithoutValidation ==
    FullCheckResult("fake-likely", FALSE, Null, Null)

ExtFakeLikelyResult ==
    FullCheckResult("fake-likely", FALSE, Null,
        ValidationResponse(FALSE, 0, "none", Undefined,
                           <<Discrepancy("doi", "critical")>>, "fake-likely"))

\* checkByDoi, "DOI exists!" part: discrepancies, retraction status, verdict
checkByDoiExists(c, src, matchedData, rawCrossrefWork) ==
    LET discrepancies == IF matchedData.defined
                         THEN extCompareMetadata(c, matchedData) ELSE <<>>
        retractionDetails == IF rawCrossrefWork.defined
                             THEN checkRetractionStatus(rawCrossrefWork) ELSE Null
    IN  IF retractionDetails.defined
        THEN FullCheckResult("retracted", TRUE, retractionDetails,
                 ValidationResponse(TRUE, 10000, src, matchedData, discrepancies, "retracted"))
        ELSE FullCheckResult("verified", FALSE, Null,
                 ValidationResponse(TRUE, 10000, src, matchedData, discrepancies, "verified"))

\* checkByDoi up to the request to OpenAlex; crossrefToMatchedData reads
\* work.author and throws a TypeError on an undefined work
checkByDoiAfterCrossRef(c, cr) ==
    IF cr.status = "found"
    THEN IF ~cr.work.defined
         THEN Throw
         ELSE Return(checkByDoiExists(c, "crossref", crossrefToMatchedData(cr.work), cr.work))
    ELSE AwaitOpenAlex

\* checkByDoi from the answer of OpenAlex on; openalexToMatchedData reads
\* work.authorships and throws a TypeError on a null work
checkByDoiAfterOpenAlex(c, cr, oa) ==
    IF oa.status = "found"
    THEN IF ~oa.work.defined
         THEN Throw
         ELSE Return(checkByDoiExists(c, "openalex", openalexToMatchedData(oa.work), Null))
    ELSE IF cr.status = "not_found"
    THEN IF oa.status = "not_found" THEN Return(ExtFakeLikelyResult)
         ELSE Return(ExtSkipResult)
    ELSE IF oa.status = "not_found" THEN Return(ExtFakeLikelyResult)
         ELSE Return(ExtSkipResult)

-----------------------------------------------------------------------------
(* Older generation: validateByDoi on the null-returning getWork *)

Truthy(lookup) == lookup.status # "null"

LegacyFoundResponse(c, src, matchedData) ==
    LET discrepancies == compareMetadata(c, matchedData)
        confidence == calculateConfidence(discrepancies)
    IN  ValidationResponse(TRUE, confidence, src, matchedData, discrepancies,
                           getStatus(confidence, discrepancies))

LegacyFakeResponse ==
    ValidationResponse(FALSE, 0, "none", Undefined,
                       <<Discrepancy("doi", "critical")>>, "fake")

legacyValidateByDoiAfterCrossRef(c, cr) ==
    IF Truthy(cr)
    THEN Return(LegacyFoundResponse(c, "crossref", crossrefToMatchedData(cr.work)))
    ELSE AwaitOpenAlex

\* The OpenAlex client of the repository returns a tagged object, which is
\* always truthy; openalexToMatchedData is applied to that object, whose
\* `authors` member is undefined, so `work.authors.map` throws a TypeError.
legacyValidateByDoiAfterOpenAlex(c, cr, oa) ==
    IF Truthy(oa)
    THEN Throw
    ELSE Return(LegacyFakeResponse)

-----------------------------------------------------------------------------
(* The verification as a state machine.  The only suspension points are   *)
(* the two source requests; everything between two of them is one step.   *)

NoCitation == [doi |-> "", title |-> {}, authors |-> <<>>, year |-> 0, journal |-> {}]
NoMatch == Undefined
NotChecked == [checked |-> FALSE]
NoArgs == [op |-> "none"]

\* new Map(): no key holds a result
EmptyCache == [key \in {} |-> Null]

\* no batch check is in progress
NoJob == [toCheck |-> <<>>]

\* POST /check/full wraps the validation it awaited
FullRouteStep(step) ==
    IF step.kind = "return"
    THEN Return(FullCheckResult(step.value.status, FALSE, Null, step.value))
    ELSE step

\* the CrossRef client each implementation calls
CrossRefClient(i, resp) ==
    IF i \in {"backend", "checkfull"} THEN CrossRefGetWork(resp)
    ELSE IF i = "extension" THEN checkCrossRef(resp)
    ELSE LegacyCrossRefGetWork(resp)

\* the OpenAlex client each implementation calls
OpenAlexClient(i, resp) ==
    IF i = "extension" THEN checkOpenAlex(resp) ELSE OpenAlexGetWork(resp)

AfterCrossRef(i, c, cr) ==
    IF i = "backend" THEN validateByDoiAfterCrossRef(c, cr)
    ELSE IF i = "checkfull" THEN FullRouteStep(validateByDoiAfterCrossRef(c, cr))
    ELSE IF i = "extension" THEN checkByDoiAfterCrossRef(c, cr)
    ELSE legacyValidateByDoiAfterCrossRef(c, cr)

AfterOpenAlex(i, c, cr, oa) ==
    IF i = "backend" THEN validateByDoiAfterOpenAlex(c, cr, oa)
    ELSE IF i = "checkfull" THEN FullRouteStep(validateByDoiAfterOpenAlex(c, cr, oa))
    ELSE IF i = "extension" THEN checkByDoiAfterOpenAlex(c, cr, oa)
    ELSE legacyValidateByDoiAfterOpenAlex(c, cr, oa)

\* nothing has been asked yet
Idle ==
    /\ citation = NoCitation
    /\ pc = "idle"
    /\ requests = <<>>
    /\ inflight = {}
    /\ crossrefResp = NoResponse
    /\ openalexResp = NoResponse
    /\ crossrefResult = NotQueried
    /\ openalexResult = NotQueried
    /\ result = NoResult
    /\ bestMatch = NoMatch
    /\ retraction = NotChecked
    /\ resultsCache = EmptyCache
    /\ job = NoJob
    /\ calls = 0
    /\ checkedCitations = EmptyCache
    /\ topBanner = [shown |-> FALSE]

Init ==
    /\ impl \in Implementations
    /\ Idle
    /\ args = NoArgs

\* mutant: both sources are asked at once (speculative parallel dispatch)
ValidateParallel(c) ==
    /\ pc = "idle"
    /\ c.doi # ""
    /\ citation' = c
    /\ pc' = "crossref"
    /\ requests' = requests \o <<"crossref", "openalex">>
    /\ inflight' = inflight \cup {"crossref", "openalex"}
    /\ UNCHANGED <<impl, crossrefResp, openalexResp, crossrefResult,
                   openalexResult, result, bestMatch, retraction, args, batchVars>>

\* validate / checkCitation on a citation with a DOI: the DOI path is
\* taken and the request to CrossRef is issued
Validate(c) ==
    /\ pc = "idle"
    /\ c.doi # ""
    /\ citation' = c
    /\ pc' = "crossref"
    /\ requests' = Append(requests, "crossref")
    /\ inflight' = inflight \cup {"crossref"}
    /\ UNCHANGED <<impl, crossrefResp, openalexResp, crossrefResult,
                   openalexResult, result, bestMatch, retraction, args, batchVars>>

\* the CrossRef request completes with resp and the verification resumes
CrossRefReplies(resp) ==
    /\ pc = "crossref"
    /\ LET cr == CrossRefClient(impl, resp)
           step == AfterCrossRef(impl, citation, cr)
       IN  /\ crossrefResp' = resp
           /\ crossrefResult' = cr
           /\ result' = step.value
           /\ pc' = IF step.kind = "return" THEN "returned"
                    ELSE IF step.kind = "throw" THEN "threw"
                    ELSE "openalex"
           /\ requests' = IF step.kind = "await"
                          THEN Append(requests, "openalex") ELSE requests
           /\ inflight' = IF step.kind = "await"
                          THEN (inflight \ {"crossref"}) \cup {"openalex"}
                          ELSE inflight \ {"crossref"}
    /\ UNCHANGED <<impl, citation, openalexResp, openalexResult,
                   bestMatch, retraction, args, batchVars>>

\* the OpenAlex request completes with resp and the verification resumes
OpenAlexReplies(resp) ==
    /\ pc = "openalex"
    /\ LET oa == OpenAlexClient(impl, resp)
           step == AfterOpenAlex(impl, citation, crossrefResult, oa)
       IN  /\ openalexResp' = resp
           /\ openalexResult' = oa
           /\ result' = step.value
           /\ pc' = IF step.kind = "throw" THEN "threw" ELSE "returned"
    /\ inflight' = inflight \ {"openalex"}
    /\ UNCHANGED <<impl, citation, requests, crossrefResp, crossrefResult,
                   bestMatch, retraction, args, batchVars>>

Next ==
    \/ \E c \in Citations : Validate(c)
    \/ \E resp \in CrossRefResponses : CrossRefReplies(resp)
    \/ \E resp \in OpenAlexResponses : OpenAlexReplies(resp)

Spec == Init /\ [][Next]_vars

-----------------------------------------------------------------------------
(* POST /check/full: RetractionService.check first, then validate.  The    *)
(* retraction check sends its own request to CrossRef; the lookups in the  *)
(* local Retraction Watch table are no source requests and are part of the *)
(* step that follows the answer.                                           *)

RetractionCheck(retracted, nature) ==
    [checked |-> TRUE, isRetracted |-> retracted, retractionNature |-> nature]

NotRetracted == RetractionCheck(FALSE, "none")

\* checkByDoiLocal: `recorded` tells whether the table holds the DOI
checkByDoiLocal(recorded) ==
    IF recorded THEN RetractionCheck(TRUE, "Retraction") ELSE NotRetracted

\* checkViaCrossRefApi: a 404 is "not retracted"; every other failure,
\* `null.message` and `undefined['update-to']` included, falls back to the
\* local table in the catch clause
checkViaCrossRefApi(resp, recorded) ==
    IF resp.kind = "throw" THEN checkByDoiLocal(recorded)
    ELSE IF resp.status = 404 THEN NotRetracted
    ELSE IF ~ResponseOk(resp) THEN checkByDoiLocal(recorded)
    ELSE IF resp.body # "object" THEN checkByDoiLocal(recorded)
    ELSE IF ~resp.payload.defined THEN checkByDoiLocal(recorded)
    ELSE LET updates == resp.payload.updateTo
             marked == {i \in 1..Len(updates) :
                           updates[i] \in {"retraction", "expression-of-concern"}}
         IN  IF marked # {}
             THEN LET first == CHOOSE i \in marked : \A j \in marked : i <= j
                  IN  RetractionCheck(TRUE, IF updates[first] = "retraction"
                                           THEN "Retraction" ELSE "Expression of Concern")
             ELSE NotRetracted

\* RetractionService.checkByDoi, which check calls for a citation with DOI
checkByDoi(resp, recorded) ==
    IF checkViaCrossRefApi(resp, recorded).isRetracted
    THEN checkViaCrossRefApi(resp, recorded)
    ELSE checkByDoiLocal(recorded)

InitFull ==
    /\ impl = "checkfull"
    /\ Idle
    /\ args = NoArgs

\* the route is called with a citation that has a DOI: the retraction
\* check asks CrossRef for the work
CheckFull(c) ==
    /\ pc = "idle"
    /\ c.doi # ""
    /\ citation' = c
    /\ pc' = "retraction"
    /\ requests' = Append(requests, "crossref")
    /\ inflight' = inflight \cup {"crossref"}
    /\ UNCHANGED <<impl, crossrefResp, openalexResp, crossrefResult,
                   openalexResult, result, bestMatch, retraction, args, batchVars>>

\* CrossRef answers the retraction check: a retracted work ends the route,
\* otherwise validate starts and asks CrossRef for the same work
RetractionReplies(resp, recorded) ==
    /\ pc = "retraction"
    /\ LET retractionResult == checkByDoi(resp, recorded)
       IN  /\ retraction' = retractionResult
           /\ IF retractionResult.isRetracted
              THEN /\ result' = FullCheckResult("retracted", TRUE,
                                    [defined |-> TRUE,
                                     retractionNature |-> retractionResult.retractionNature],
                                    Null)
                   /\ pc' = "returned"
                   /\ inflight' = inflight \ {"crossref"}
                   /\ UNCHANGED requests
              ELSE /\ pc' = "crossref"
                   /\ requests' = Append(requests, "crossref")
                   /\ inflight' = inflight
                   /\ UNCHANGED result
    /\ UNCHANGED <<impl, citation, crossrefResp, openalexResp, crossrefResult,
                   openalexResult, bestMatch, args, batchVars>>

NextFull ==
    \/ \E c \in Citations : CheckFull(c)
    \/ pc = "retraction" /\ \E resp \in CrossRefResponses, recorded \in BOOLEAN :
                                RetractionReplies(resp, recorded)
    \/ pc = "crossref" /\ \E resp \in CrossRefResponses : CrossRefReplies(resp)
    \/ pc = "openalex" /\ \E resp \in OpenAlexResponses : OpenAlexReplies(resp)

SpecFull == InitFull /\ [][NextFull]_vars

-----------------------------------------------------------------------------
(* Verification of a citation without DOI: validateByMetadata.  The        *)
(* suspension points are the OpenAlex search and the CrossRef search.      *)

\* longest list of candidates a search returns
MaxCandidates == 2

\* titles of similarity 3/7 and 1/5 to TitleFull
TitleSeventh == TitleFull \cup {"for", "graph", "neural", "networks"}
TitleFifth == {"deep", "ghost", "paper"}

FuzzyCitations ==
    [doi : {""},
     title : {{}, TitleFull},
     authors : {<<>>, <<AuthorA>>},
     year : {0, BaseYear},
     journal : {JournalA}]

\* the items of a search response, with the members transformResponse reads
CandidateWorks ==
    {[defined |-> TRUE, title |-> t, authors |-> a, year |-> y, journal |-> JournalA] :
        t \in {{}, TitleFull, TitlePart, TitleSeventh, TitleFifth},
        a \in {<<>>, <<AuthorA>>, <<AuthorB>>},
        y \in {BaseYear, BaseYear + MaxYearGap}}

CandidateLists == UNION {[1..n -> CandidateWorks] : n \in 0..MaxCandidates}

\* a search exchange: a failure, a 2xx JSON object without the list of
\* items, or a 2xx JSON object with the list
SearchResponses ==
    FailedResponses \cup {HttpOk("no_items", Undefined)}
        \cup {HttpOk("object", items) : items \in CandidateLists}

\* what a source client's search hands to validateByMetadata
SearchResults(works) == [status |-> "results", work |-> Undefined, works |-> works]

\* mutant: the catch clause of the search rethrows
OpenAlexSearchRethrows(resp) ==
    IF resp.kind = "throw" THEN Throw
    ELSE IF ~ResponseOk(resp) THEN Throw
    ELSE IF resp.body # "object" THEN Throw
    ELSE Return([i \in 1..Len(resp.payload) |-> OpenAlexTransformResponse(resp.payload[i])])

\* OpenAlexService.search with a title filter: the list of works, the empty
\* list from the catch clause
OpenAlexSearch(resp) ==
    IF resp.kind = "throw" THEN Return(<<>>)
    ELSE IF ~ResponseOk(resp) THEN Return(<<>>)
    ELSE IF resp.body # "object" THEN Return(<<>>)
    ELSE Return([i \in 1..Len(resp.payload) |-> OpenAlexTransformResponse(resp.payload[i])])

\* CrossRefService.searchByTitle and searchByAuthorAndTitle
CrossRefSearch(resp) ==
    IF resp.kind = "throw" THEN Return(<<>>)
    ELSE IF ~ResponseOk(resp) THEN Return(<<>>)
    ELSE IF resp.body # "object" THEN Return(<<>>)
    ELSE Return([i \in 1..Len(resp.payload) |-> CrossRefTransformResponse(resp.payload[i])])

\* mutant: equal years weigh 0.3, so the weights add up to 1.1
MatchScoreHeavyYear(c, work) ==
    LET t == IF c.title # {} /\ work.title # {}
             THEN stringSimilarity(c.title, work.title) ELSE <<0, 1>>
        a == IF Len(c.authors) > 0 /\ Len(work.authors) > 0
             THEN stringSimilarity(c.authors[1], work.authors[1]) ELSE <<0, 1>>
        y == IF c.year # 0 /\ work.year # 0 /\ c.year = work.year THEN 1 ELSE 0
    IN  <<5 * t[1] * a[2] + 3 * a[1] * t[2] + 3 * y * t[2] * a[2], 10 * t[2] * a[2]>>

\* the score of one candidate as the fraction <<numerator, denominator>>:
\* 0.5 * title similarity + 0.3 * first-author similarity + 0.2 for equal years,
\* each term only when both sides have the field
MatchScore(c, work) ==
    LET t == IF c.title # {} /\ work.title # {}
             THEN stringSimilarity(c.title, work.title) ELSE <<0, 1>>
        a == IF Len(c.authors) > 0 /\ Len(work.authors) > 0
             THEN stringSimilarity(c.authors[1], work.authors[1]) ELSE <<0, 1>>
        y == IF c.year # 0 /\ work.year # 0 /\ c.year = work.year THEN 1 ELSE 0
    IN  <<5 * t[1] * a[2] + 3 * a[1] * t[2] + 2 * y * t[2] * a[2], 10 * t[2] * a[2]>>

\* s1 > s2 on fractions
ScoreAbove(s1, s2) == s1[1] * s2[2] > s2[1] * s1[2]

\* the score as a number of the result, in units of 1/10000 (rounded down)
ToConfidence(score) == (score[1] * 10000) \div score[2]

Match(work, score) == [defined |-> TRUE, work |-> work, score |-> score]

\* mutant: a later candidate of the same score replaces the earlier one
ReplacesOnTie(score, best) ==
    ~best.defined \/ ~ScoreAbove(best.score, score)

\* `!bestMatch || score > bestMatch.score`
Replaces(score, best) ==
    ~best.defined \/ ScoreAbove(score, best.score)

\* the for loop of findBestCrossRefMatch / findBestOpenAlexMatch from the
\* i-th work on
RECURSIVE BestMatchLoop(_, _, _, _)
BestMatchLoop(c, works, i, best) ==
    IF i > Len(works) THEN best
    ELSE LET score == MatchScore(c, works[i])
         IN  BestMatchLoop(c, works, i + 1,
                 IF Replaces(score, best) THEN Match(works[i], score) ELSE best)

findBestCrossRefMatch(c, works) == BestMatchLoop(c, works, 1, NoMatch)

findBestOpenAlexMatch(c, works) == BestMatchLoop(c, works, 1, NoMatch)

\* mutant: a best match is accepted from a score of 0.5 on
AcceptsAboveHalf(best) ==
    best.defined /\ ScoreAbove(best.score, <<5, 10>>)

\* mutant: a best match of score exactly 0.7 is accepted
AcceptsFromThreshold(best) ==
    best.defined /\ ~ScoreAbove(<<7, 10>>, best.score)

\* mutant: a best match is accepted from a score above 0.6 on
AcceptsAboveSixTenths(best) ==
    best.defined /\ ScoreAbove(best.score, <<6, 10>>)

\* `bestMatch && bestMatch.score > 0.7`
Accepts(best) ==
    best.defined /\ ScoreAbove(best.score, <<7, 10>>)

\* validateByMetadata: the result for an accepted match
MatchedResponse(c, src, matchedData, score) ==
    LET discrepancies == compareMetadata(c, matchedData)
    IN  ValidationResponse(TRUE, ToConfidence(score), src, matchedData, discrepancies,
                           getMetadataBasedStatus(ToConfidence(score), discrepancies))

\* mutant: the rejected candidate is reported as matched data
LowConfidenceKeepsMatch(best) ==
    ValidationResponse(FALSE, IF best.defined THEN ToConfidence(best.score) ELSE 0,
                       "none", IF best.defined THEN openalexToMatchedData(best.work)
                               ELSE Undefined, <<>>, "skip")

\* validateByMetadata: "Low confidence match -> skip"
LowConfidenceResponse(best) ==
    ValidationResponse(FALSE, IF best.defined THEN ToConfidence(best.score) ELSE 0,
                       "none", Undefined, <<>>, "skip")

InitFuzzy ==
    /\ impl = "backend"
    /\ Idle
    /\ args = NoArgs

\* validate on a citation without DOI: without a title the result is skip
\* at once, otherwise OpenAlex is searched
ValidateByMetadata(c) ==
    /\ pc = "idle"
    /\ c.doi = ""
    /\ citation' = c
    /\ IF c.title = {}
       THEN /\ result' = SkipResponse
            /\ pc' = "returned"
            /\ UNCHANGED <<requests, inflight>>
       ELSE /\ pc' = "openalex_search"
            /\ requests' = Append(requests, "openalex")
            /\ inflight' = inflight \cup {"openalex"}
            /\ UNCHANGED result
    /\ UNCHANGED <<impl, crossrefResp, openalexResp, crossrefResult, openalexResult,
                   bestMatch, retraction, args, batchVars>>

\* mutant: CrossRef is also searched when the best OpenAlex candidate is
\* rejected
OpenAlexSearchFallsBackOnReject(resp) ==
    /\ pc = "openalex_search"
    /\ openalexResp' = resp
    /\ LET searched == OpenAlexSearch(resp)
           searchResults == searched.value
           best == findBestOpenAlexMatch(citation, searchResults)
       IN  IF Len(searchResults) = 0 \/ ~Accepts(best)
           THEN /\ pc' = "crossref_search"
                /\ openalexResult' = SearchResults(searchResults)
                /\ requests' = Append(requests, "crossref")
                /\ inflight' = (inflight \ {"openalex"}) \cup {"crossref"}
                /\ UNCHANGED <<bestMatch, result>>
           ELSE /\ pc' = "returned"
                /\ openalexResult' = SearchResults(searchResults)
                /\ inflight' = inflight \ {"openalex"}
                /\ bestMatch' = best
                /\ result' = MatchedResponse(citation, "openalex",
                                 openalexToMatchedData(best.work), best.score)
                /\ UNCHANGED requests
    /\ UNCHANGED <<impl, citation, crossrefResp, crossrefResult, retraction, args, batchVars>>

\* the OpenAlex search completes with resp and validateByMetadata resumes
OpenAlexSearchReplies(resp) ==
    /\ pc = "openalex_search"
    /\ openalexResp' = resp
    /\ LET searched == OpenAlexSearch(resp)
           searchResults == searched.value
           best == findBestOpenAlexMatch(citation, searchResults)
       IN  IF searched.kind = "throw"
           THEN /\ pc' = "threw"
                /\ openalexResult' = Error
                /\ inflight' = inflight \ {"openalex"}
                /\ UNCHANGED <<requests, bestMatch, result>>
           ELSE IF Len(searchResults) = 0
           THEN /\ pc' = "crossref_search"
                /\ openalexResult' = SearchResults(searchResults)
                /\ requests' = Append(requests, "crossref")
                /\ inflight' = (inflight \ {"openalex"}) \cup {"crossref"}
                /\ UNCHANGED <<bestMatch, result>>
           ELSE /\ pc' = "returned"
                /\ openalexResult' = SearchResults(searchResults)
                /\ inflight' = inflight \ {"openalex"}
                /\ bestMatch' = best
                /\ result' = IF Accepts(best)
                             THEN MatchedResponse(citation, "openalex",
                                      openalexToMatchedData(best.work), best.score)
                             ELSE LowConfidenceResponse(best)
                /\ UNCHANGED requests
    /\ UNCHANGED <<impl, citation, crossrefResp, crossrefResult, retraction, args, batchVars>>

\* the CrossRef search completes with resp and validateByMetadata resumes
CrossRefSearchReplies(resp) ==
    /\ pc = "crossref_search"
    /\ crossrefResp' = resp
    /\ inflight' = inflight \ {"crossref"}
    /\ LET searched == CrossRefSearch(resp)
           crossrefResults == searched.value
           best == findBestCrossRefMatch(citation, crossrefResults)
       IN  IF searched.kind = "throw"
           THEN /\ pc' = "threw"
                /\ crossrefResult' = Error
                /\ UNCHANGED <<bestMatch, result>>
           ELSE /\ pc' = "returned"
                /\ crossrefResult' = SearchResults(crossrefResults)
                /\ bestMatch' = IF Len(crossrefResults) > 0 THEN best ELSE bestMatch
                /\ result' = IF Len(crossrefResults) > 0 /\ Accepts(best)
                             THEN MatchedResponse(citation, "crossref",
                                      crossrefToMatchedData(best.work), best.score)
                             ELSE SkipResponse
    /\ UNCHANGED <<impl, citation, requests, openalexResp, openalexResult,
                   retraction, args, batchVars>>

NextFuzzy ==
    \/ \E c \in FuzzyCitations : ValidateByMetadata(c)
    \/ pc = "openalex_search" /\ \E resp \in SearchResponses : OpenAlexSearchReplies(resp)
    \/ pc = "crossref_search" /\ \E resp \in SearchResponses : CrossRefSearchReplies(resp)

SpecFuzzy == InitFuzzy /\ [][NextFuzzy]_vars

\* CitationValidatorService.validate: the DOI path for a citation with a
\* DOI, the search path for every other citation
\* citations whose DOI field holds a placeholder of the data sets
PlaceholderCitations ==
    [doi : {"0", "unavailable"}, title : {{}, TitleFull}, authors : {<<>>},
     year : {0}, journal : {{}}]

NextValidate ==
    \/ \E c \in Citations \cup PlaceholderCitations : Validate(c)
    \/ pc = "crossref" /\ \E resp \in CrossRefResponses : CrossRefReplies(resp)
    \/ pc = "openalex" /\ \E resp \in OpenAlexResponses : OpenAlexReplies(resp)
    \/ \E c \in FuzzyCitations : ValidateByMetadata(c)
    \/ pc = "openalex_search" /\ \E resp \in SearchResponses : OpenAlexSearchReplies(resp)
    \/ pc = "crossref_search" /\ \E resp \in SearchResponses : CrossRefSearchReplies(resp)

SpecValidate == InitFuzzy /\ [][NextValidate]_vars

-----------------------------------------------------------------------------
(* Batch checks.  Three entry points run a list of inputs through          *)
(* Promise.all:                                                            *)
(*   "worker"     the service worker's handleBatchCheck, which answers     *)
(*                from resultsCache and passes the rest to                 *)
(*                CiticiousAPI.checkBatch (windows of BATCH_SIZE),         *)
(*   "batchroute" the route POST /check/batch (no window),                 *)
(*   "batchCheck" RetractionService.batchCheck (windows of 10).            *)
(* The service worker also answers single checks (handleSingleCheck) and   *)
(* clears its cache on a timer.  The check of one input is one pending     *)
(* promise; the sources answer a DOI the same way every time they are      *)
(* asked (SourceAnswer), and what a check returns or throws is computed by *)
(* the verification operators above.  Messages are handled one at a time;  *)
(* checks left pending by a rejected Promise.all settle without effect.    *)
(* A DOI, PMID or id string is the sequence of its pieces of text (<<>> is *)
(* the empty string), so that spellings of one DOI can be told apart.      *)

\* const BATCH_SIZE = 5 in checkBatch
BATCH_SIZE == 5

\* const BATCH_SIZE = 10 in batchCheck
RETRACTION_BATCH_SIZE == 10

\* maxItems of POST /check/batch
MAX_ITEMS == 50

\* longest list of citations of every kind handed to handleBatchCheck
MaxMixed == 2

\* longest list of citations of the known DOI handed to handleBatchCheck
MaxBatch == 6

\* longest list handed to POST /check/batch and to batchCheck
MaxItems == 11

\* number of messages the service worker handles
MaxCalls == 2

BatchEntries == {"worker", "batchroute", "batchCheck"}

\* a DOI both sources know, and a DOI for which CrossRef answers a JSON
\* object that has no `message` member
KnownDoi == <<"10.1/", "a">>
OddDoi == <<"10.1/", "odd">>

\* the answer of CrossRef for a DOI, the same whenever it is asked
SourceAnswer(doi) ==
    IF doi = KnownDoi
    THEN HttpOk("object", [defined |-> TRUE, title |-> TitleFull, authors |-> <<>>,
                           year |-> 0, journal |-> {}, updateTo |-> <<>>,
                           relation |-> {}])
    ELSE HttpOk("object", Undefined)

ExtractedCitation(id, doi, title) ==
    [id |-> id, doi |-> doi, pmid |-> <<>>, title |-> title, authors |-> <<>>,
     year |-> 0, journal |-> {}]

\* what the page extractors find: a DOI next to a title (the same DOI may
\* come with another title), or nothing usable
ExtractedKinds ==
    {[doi |-> KnownDoi, title |-> TitleFull],
     [doi |-> KnownDoi, title |-> TitleOther],
     [doi |-> OddDoi, title |-> TitleFull],
     [doi |-> <<>>, title |-> {}]}

\* generateId: an id no other citation of any scan carries
generateId(scan, i) == <<"cit-" \o ToString(scan) \o "-" \o ToString(i)>>

\* the lists of at most n citations a scan of a page extracts
BatchesOf(kinds, n, scan) ==
    UNION {{[i \in 1..m |->
                ExtractedCitation(generateId(scan, i), f[i].doi, f[i].title)] :
               f \in [1..m -> kinds]} : m \in 0..n}

WorkerBatches(scan) ==
    BatchesOf(ExtractedKinds, MaxMixed, scan)
        \cup BatchesOf({[doi |-> KnownDoi, title |-> TitleFull]}, MaxBatch, scan)

ItemBatches == BatchesOf({[doi |-> KnownDoi, title |-> TitleFull]}, MaxItems, 1)

\* the citations of CHECK_CITATION messages
SingleCitations ==
    {ExtractedCitation(<<>>, k.doi, k.title) : k \in ExtractedKinds}

\* getCacheKey
getCacheKey(c) ==
    IF c.doi # <<>> THEN c.doi
    ELSE IF c.pmid # <<>> THEN c.pmid
    ELSE IF c.title # {} THEN c.title
    ELSE c.id

\* handleSingleCheck: citation.doi || citation.pmid || citation.title || ''
singleCacheKey(c) ==
    IF c.doi # <<>> THEN c.doi
    ELSE IF c.pmid # <<>> THEN c.pmid
    ELSE IF c.title # {} THEN c.title
    ELSE <<>>

\* checkCitation: checkByDoi for a citation with a DOI (CrossRef knows every
\* DOI asked here, so OpenAlex is not reached), skip without DOI and URL
checkCitation(c) ==
    IF c.doi # <<>>
    THEN checkByDoiAfterCrossRef(c, checkCrossRef(SourceAnswer(c.doi)))
    ELSE Return(ExtSkipResult)

\* one item of POST /check/batch: retraction check, then validate
checkBatchItem(c) ==
    LET retractionResult == checkByDoi(SourceAnswer(c.doi), FALSE)
        input == [doi |-> c.doi, title |-> c.title]
    IN  IF retractionResult.isRetracted
        THEN Return([input |-> input, status |-> "retracted", isRetracted |-> TRUE,
                     retractionDetails |-> retractionResult, validation |-> Null])
        ELSE LET step == validateByDoiAfterCrossRef(c, CrossRefGetWork(SourceAnswer(c.doi)))
             IN  IF step.kind = "return"
                 THEN Return([input |-> input, status |-> step.value.status,
                              isRetracted |-> FALSE, retractionDetails |-> Null,
                              validation |-> step.value])
                 ELSE Throw

\* the promise each entry point creates for one input
ItemCheck(i, c) ==
    IF i = "worker" THEN checkCitation(c)
    ELSE IF i = "batchroute" THEN checkBatchItem(c)
    ELSE Return(checkByDoi(SourceAnswer(c.doi), FALSE))

\* the number of promises one Promise.all gets
WindowSize(i, n) ==
    IF i = "worker" THEN BATCH_SIZE
    ELSE IF i = "batchCheck" THEN RETRACTION_BATCH_SIZE
    ELSE Max(n, 1)

\* items.slice(i, i + BATCH_SIZE), as indices
Window(i, size, n) == i .. Min(i + size - 1, n)

\* the DOIs the checks of a window ask the sources for
WindowRequests(toCheck, window) ==
    LET asked == SelectSeq([k \in 1..Len(toCheck) |-> k],
                           LAMBDA k : k \in window /\ toCheck[k].doi # <<>>)
    IN  [k \in 1..Len(asked) |-> toCheck[asked[k]].doi]

UnknownResult == FullCheckResult("unknown", FALSE, Null, Null)

\* the { id, result } entries of the citations the cache answers
CachedResults(citations, cache) ==
    LET hits == SelectSeq(citations, LAMBDA c : getCacheKey(c) \in DOMAIN cache)
    IN  [k \in 1..Len(hits) |-> [id |-> hits[k].id,
                                 result |-> cache[getCacheKey(hits[k])]]]

\* apiResults.get(id): the Map keeps the last result set for an id
ApiResult(toCheck, done, id) ==
    LET last == CHOOSE k \in DOMAIN done :
                    /\ toCheck[k].id = id
                    /\ \A j \in DOMAIN done : toCheck[j].id = id => j <= k
    IN  done[last]

\* the { id, result } entries handleBatchCheck pushes after checkBatch
FreshResults(toCheck, done) ==
    [k \in 1..Len(toCheck) |->
        [id |-> toCheck[k].id, result |-> ApiResult(toCheck, done, toCheck[k].id)]]

\* resultsCache after the loop of resultsCache.set over toCheck
CacheAfter(cache, toCheck, done) ==
    LET keys == {getCacheKey(toCheck[k]) : k \in 1..Len(toCheck)}
        lastOf(key) == CHOOSE k \in 1..Len(toCheck) :
                           /\ getCacheKey(toCheck[k]) = key
                           /\ \A j \in 1..Len(toCheck) :
                                  getCacheKey(toCheck[j]) = key => j <= k
    IN  [key \in DOMAIN cache \cup keys |->
            IF key \in keys
            THEN ApiResult(toCheck, done, toCheck[lastOf(key)].id)
            ELSE cache[key]]

\* the entries of the catch clause of handleBatchCheck
UnknownResults(toCheck) ==
    [k \in 1..Len(toCheck) |-> [id |-> toCheck[k].id, result |-> UnknownResult]]

Settled == {"idle", "returned", "threw"}

InitBatch ==
    /\ impl \in BatchEntries
    /\ Idle
    /\ args = NoArgs

\* the first window of promises is created
StartJob(cachedResults, toCheck) ==
    LET window == Window(1, WindowSize(impl, Len(toCheck)), Len(toCheck))
    IN  /\ pc' = "batch"
        /\ job' = [results |-> cachedResults, toCheck |-> toCheck, i |-> 1,
                   done |-> EmptyCache]
        /\ inflight' = window
        /\ requests' = WindowRequests(toCheck, window)
        /\ result' = NoResult

\* CHECK_BATCH: the cache is read for every citation, then checkBatch is
\* called with the citations it did not answer
HandleBatchCheck(citations) ==
    /\ impl = "worker"
    /\ pc \in Settled
    /\ calls < MaxCalls
    /\ LET toCheck == SelectSeq(citations,
                                LAMBDA c : getCacheKey(c) \notin DOMAIN resultsCache)
           cachedResults == CachedResults(citations, resultsCache)
       IN  IF Len(toCheck) > 0
           THEN StartJob(cachedResults, toCheck)
           ELSE /\ pc' = "returned"
                /\ result' = [results |-> cachedResults]
                /\ job' = NoJob
                /\ inflight' = {}
                /\ requests' = <<>>
    /\ args' = [op |-> "handleBatchCheck", citations |-> citations]
    /\ calls' = calls + 1
    /\ UNCHANGED <<pageVars, impl, citation, crossrefResp, openalexResp, crossrefResult,
                   openalexResult, bestMatch, retraction, resultsCache>>

\* POST /check/batch and batchCheck are called with a list of items
HandleItems(items) ==
    /\ impl \in {"batchroute", "batchCheck"}
    /\ pc = "idle"
    /\ IF impl = "batchroute" /\ (Len(items) = 0 \/ Len(items) > MAX_ITEMS)
       THEN /\ pc' = "returned"
            /\ result' = [error |-> 400]
            /\ UNCHANGED <<job, inflight, requests>>
       ELSE IF Len(items) = 0
       THEN /\ pc' = "returned"
            /\ result' = [results |-> <<>>]
            /\ UNCHANGED <<job, inflight, requests>>
       ELSE StartJob(<<>>, items)
    /\ args' = [op |-> impl, citations |-> items]
    /\ calls' = calls + 1
    /\ UNCHANGED <<pageVars, impl, citation, crossrefResp, openalexResp, crossrefResult,
                   openalexResult, bestMatch, retraction, resultsCache>>

\* the check of the k-th input settles.  A rejection rejects Promise.all at
\* once; the last fulfilment of a window resumes the loop, which starts the
\* next window or returns.
CheckSettles(k) ==
    /\ pc = "batch"
    /\ k \in inflight
    /\ LET toCheck == job.toCheck
           n == Len(toCheck)
           size == WindowSize(impl, n)
           step == ItemCheck(impl, toCheck[k])
           done == [j \in DOMAIN job.done \cup {k} |->
                       IF j = k THEN step.value ELSE job.done[j]]
           next == Window(job.i + size, size, n)
       IN  IF step.kind = "throw"
           THEN /\ inflight' = {}
                /\ job' = NoJob
                /\ UNCHANGED <<requests, resultsCache>>
                /\ IF impl = "worker"
                   THEN /\ pc' = "returned"
                        /\ result' = [results |-> job.results \o UnknownResults(toCheck)]
                   ELSE /\ pc' = "threw"
                        /\ result' = NoResult
           ELSE IF inflight # {k}
           THEN /\ inflight' = inflight \ {k}
                /\ job' = [job EXCEPT !.done = done]
                /\ UNCHANGED <<pc, requests, result, resultsCache>>
           ELSE IF next # {}
           THEN /\ inflight' = next
                /\ job' = [job EXCEPT !.done = done, !.i = job.i + size]
                /\ requests' = requests \o WindowRequests(toCheck, next)
                /\ UNCHANGED <<pc, result, resultsCache>>
           ELSE /\ inflight' = {}
                /\ job' = NoJob
                /\ pc' = "returned"
                /\ UNCHANGED requests
                /\ IF impl = "worker"
                   THEN /\ resultsCache' = CacheAfter(resultsCache, toCheck, done)
                        /\ result' = [results |-> job.results \o FreshResults(toCheck, done)]
                   ELSE /\ result' = [results |-> [j \in 1..n |-> done[j]]]
                        /\ UNCHANGED resultsCache
    /\ UNCHANGED <<pageVars, impl, citation, crossrefResp, openalexResp, crossrefResult,
                   openalexResult, bestMatch, retraction, args, calls>>

\* CHECK_CITATION: answered from the cache, or checkCitation is awaited
HandleSingleCheck(c) ==
    /\ impl = "worker"
    /\ pc \in Settled
    /\ calls < MaxCalls
    /\ IF singleCacheKey(c) \in DOMAIN resultsCache
       THEN /\ pc' = "returned"
            /\ result' = resultsCache[singleCacheKey(c)]
            /\ inflight' = {}
            /\ requests' = <<>>
       ELSE /\ pc' = "single"
            /\ result' = NoResult
            /\ inflight' = {1}
            /\ requests' = IF c.doi # <<>> THEN <<c.doi>> ELSE <<>>
    /\ job' = NoJob
    /\ args' = [op |-> "handleSingleCheck", citation |-> c]
    /\ calls' = calls + 1
    /\ UNCHANGED <<pageVars, impl, citation, crossrefResp, openalexResp, crossrefResult,
                   openalexResult, bestMatch, retraction, resultsCache>>

\* checkCitation settles: the result is cached under a non-empty key; a
\* rejection reaches the message listener, which answers { error }
SingleCheckSettles ==
    /\ pc = "single"
    /\ LET c == args.citation
           step == checkCitation(c)
           cacheKey == singleCacheKey(c)
       IN  IF step.kind = "throw"
           THEN /\ pc' = "threw"
                /\ UNCHANGED <<result, resultsCache>>
           ELSE /\ pc' = "returned"
                /\ result' = step.value
                /\ resultsCache' =
                       IF cacheKey # <<>>
                       THEN [key \in DOMAIN resultsCache \cup {cacheKey} |->
                                IF key = cacheKey THEN step.value
                                ELSE resultsCache[key]]
                       ELSE resultsCache
    /\ inflight' = {}
    /\ UNCHANGED <<pageVars, impl, citation, requests, crossrefResp, openalexResp,
                   crossrefResult, openalexResult, bestMatch, retraction, args,
                   job, calls>>

\* clearCache, run by the timer between any two steps
ClearCache ==
    /\ impl = "worker"
    /\ DOMAIN resultsCache # {}
    /\ resultsCache' = EmptyCache
    /\ UNCHANGED <<pageVars, impl, citation, pc, requests, inflight, crossrefResp,
                   openalexResp, crossrefResult, openalexResult, result, bestMatch,
                   retraction, args, job, calls>>

NextBatch ==
    \/ impl = "worker" /\ pc \in Settled /\ calls < MaxCalls
           /\ \E citations \in WorkerBatches(calls + 1) : HandleBatchCheck(citations)
    \/ impl # "worker" /\ pc = "idle" /\ \E items \in ItemBatches : HandleItems(items)
    \/ \E k \in inflight : CheckSettles(k)
    \/ impl = "worker" /\ pc \in Settled /\ calls < MaxCalls
           /\ \E c \in SingleCitations : HandleSingleCheck(c)
    \/ SingleCheckSettles
    \/ ClearCache

SpecBatch == InitBatch /\ [][NextBatch]_vars

-----------------------------------------------------------------------------
(* Functions applied on their own.  getMetadataBasedStatus gets a          *)
(* confidence and a list of discrepancies as compareMetadata builds them:  *)
(* at most one per field, in the order title, year, authors, journal.      *)
(* calculateConfidence gets every list of severities up to a length.       *)
(* The two cache key computations get a pair of citations whose DOIs      *)
(* differ in letter case, padding and resolver prefix.  The presentation   *)
(* functions get a status and the badge of the element and the banner of   *)
(* the document as an earlier call may have left them.                     *)

\* longest list of discrepancies handed to calculateConfidence
MaxDiscrepancies == 4

SeverityLists ==
    UNION {[1..n -> {Discrepancy("title", sev) : sev \in {"critical", "major", "minor"}}] :
              n \in 0..MaxDiscrepancies}

ConfidenceLevels == {0, 5000, 6999, 7000, 7999, 8000, 10000}

DiscrepancyLists ==
    {t \o y \o a \o j :
        t \in {<<>>, <<Discrepancy("title", "major")>>, <<Discrepancy("title", "critical")>>},
        y \in {<<>>, <<Discrepancy("year", "minor")>>, <<Discrepancy("year", "major")>>},
        a \in {<<>>, <<Discrepancy("authors", "major")>>},
        j \in {<<>>, <<Discrepancy("journal", "minor")>>}}

\* spellings of a DOI string (<<>> is the missing DOI)
DoiSpellings ==
    {<<>>,
     <<"10.1/", "a">>,
     <<"10.1/", "A">>,
     <<"https://doi.org/", "10.1/", "a">>,
     <<"HTTPS://DOI.ORG/", "10.1/", "A">>,
     <<" ", "10.1/", "a", " ">>,
     <<"10.1/", "b">>}

\* String.prototype.toLowerCase, piece by piece
LowerCase(piece) ==
    IF piece = "A" THEN "a"
    ELSE IF piece = "HTTPS://DOI.ORG/" THEN "https://doi.org/"
    ELSE piece

toLowerCase(s) == [i \in 1..Len(s) |-> LowerCase(s[i])]

\* String.prototype.trim
trim(s) ==
    LET inked == {i \in 1..Len(s) : s[i] # " "}
    IN  IF inked = {} THEN <<>>
        ELSE SubSeq(s, CHOOSE i \in inked : \A j \in inked : i <= j,
                       CHOOSE i \in inked : \A j \in inked : j <= i)

\* normalizeDoi of api-client.ts:
\* doi.toLowerCase().trim().replace(/^https?:\/\/doi\.org\//i, '')
normalizeDoi(doi) ==
    LET t == trim(toLowerCase(doi))
    IN  IF t # <<>> /\ t[1] \in {"https://doi.org/", "http://doi.org/"}
        THEN Tail(t) ELSE t

\* normalizeDoi of doi-extractor.ts:
\* doi.toLowerCase().trim().replace(/[.,;:)\]}>]+$/, '')
extractorNormalizeDoi(doi) ==
    LET t == trim(toLowerCase(doi))
        kept == {i \in 1..Len(t) : \E j \in i..Len(t) : t[j] # "."}
    IN  SubSeq(t, 1, Cardinality(kept))

\* longest string, in pieces of text, handed to a normalizer
MaxPieces == 3

\* the pieces a string is made of: a resolver prefix, white space,
\* punctuation, digits, a capital letter
TextPieces == {"https://doi.org/", " ", ".", "10.1/", "A"}

Strings == UNION {[1..n -> TextPieces] : n \in 0..MaxPieces}

KeyCitations ==
    [id : {<<"cit-1-1">>}, doi : DoiSpellings, pmid : {<<>>, <<"123">>},
     title : {{}, TitleFull}]

\* the keys of BADGE_CONFIG, and the statuses the content script passes
BadgeStatuses ==
    {"verified", "retracted", "concern", "correction", "fake-likely",
     "fake-probably", "checking"}

PresentedStatuses == BadgeStatuses \cup {"skip", "unknown"}

\* BADGE_CONFIG[status].label
BadgeLabel(status) ==
    IF status = "verified" THEN "Verified"
    ELSE IF status = "retracted" THEN "RETRACTED"
    ELSE IF status = "concern" THEN "CONCERN"
    ELSE IF status = "correction" THEN "CORRECTION"
    ELSE IF status = "fake-likely" THEN "FAKE (likely)"
    ELSE IF status = "fake-probably" THEN "FAKE (probably)"
    ELSE "Checking..."

\* the text injectTopBanner chooses; "" when no branch applies
BannerText(status) ==
    IF status = "retracted" THEN "This article has been RETRACTED"
    ELSE IF status = "concern" THEN "EXPRESSION OF CONCERN"
    ELSE IF status = "correction" THEN "CORRECTION ISSUED"
    ELSE IF status = "fake-likely" THEN "FAKE CITATION DETECTED"
    ELSE IF status = "fake-probably" THEN "SUSPICIOUS CITATION"
    ELSE ""

\* an element of the page: absent, a .citicious-badge, or #citicious-top-banner
NoElement == [shown |-> FALSE]
Badge(status) == [shown |-> TRUE, status |-> status, label |-> BadgeLabel(status)]
Banner(status) == [shown |-> TRUE, status |-> status, label |-> BannerText(status)]

Badges == {NoElement} \cup {Badge(st) : st \in BadgeStatuses}
Banners == {NoElement} \cup {Banner(st) : st \in {x \in BadgeStatuses : BannerText(x) # ""}}

\* what a presentation function returns and how it leaves the page
Presented(returned, badge, banner) ==
    [returned |-> returned, badge |-> badge, banner |-> banner]

injectTopBanner(status, badge, banner) ==
    IF status = "verified" \/ status = "skip" \/ status = "checking"
    THEN Presented(NoElement, badge, banner)
    ELSE IF BannerText(status) = ""
    THEN Presented(NoElement, badge, NoElement)
    ELSE Presented(Banner(status), badge, Banner(status))

injectBadge(status, badge, banner) ==
    IF status \notin BadgeStatuses
    THEN Presented(NoElement, NoElement, banner)
    ELSE Presented(Badge(status), Badge(status), banner)

\* mutant: a status without configuration leaves the badge as it is
updateBadgeKeepsStale(status, badge, banner) ==
    IF status \notin BadgeStatuses
    THEN Presented(NoElement, badge, banner)
    ELSE Presented(NoElement, Badge(status), banner)

\* updateBadge returns nothing
updateBadge(status, badge, banner) ==
    IF status \notin BadgeStatuses
    THEN Presented(NoElement, NoElement, banner)
    ELSE IF ~badge.shown
    THEN Presented(NoElement, injectBadge(status, badge, banner).badge, banner)
    ELSE Presented(NoElement, Badge(status), banner)

PresentationFunctions == {"injectTopBanner", "injectBadge", "updateBadge"}

\* longest reference section scanPageForDois is applied to
MaxRefs == 2

\* an entry of the reference section: the DOI its link or text carries
\* (normalized by the extractor), the number after "PMID:", the other link
RefItems ==
    [doi : {<<>>, KnownDoi, OddDoi}, pmid : {<<>>, <<"123">>},
     url : {<<>>, <<"https://example.org/a">>}]

RefSections == UNION {[1..n -> RefItems] : n \in 0..MaxRefs}

\* an ExtractedCitation of the page; the element is the position of the
\* entry in the reference section, 0 for document.body
PageCitation(doi, pmid, url, context, element) ==
    [doi |-> doi, pmid |-> pmid, url |-> url, context |-> context, element |-> element]

HasElement(citations, el) ==
    \E k \in 1..Len(citations) : citations[k].element = el

\* extractReferenceDois, methods 1 and 2: one citation for each DOI not seen
\* before
RECURSIVE ExtractDois(_, _, _, _)
ExtractDois(citations, seenDois, items, i) ==
    IF i > Len(items) THEN citations
    ELSE IF items[i].doi # <<>> /\ items[i].doi \notin seenDois
    THEN ExtractDois(Append(citations,
                         PageCitation(items[i].doi, <<>>, <<>>, "reference", i)),
                     seenDois \cup {items[i].doi}, items, i + 1)
    ELSE ExtractDois(citations, seenDois, items, i + 1)

\* extractReferenceDois, method 3: each PMID goes to the first element that
\* holds it, onto the citation of that element if there is one
RECURSIVE ExtractPmids(_, _, _)
ExtractPmids(citations, items, i) ==
    IF i > Len(items) THEN citations
    ELSE IF items[i].pmid = <<>> THEN ExtractPmids(citations, items, i + 1)
    ELSE LET el == CHOOSE k \in 1..Len(items) :
                       /\ items[k].pmid = items[i].pmid
                       /\ \A j \in 1..Len(items) : items[j].pmid = items[i].pmid => k <= j
         IN  IF HasElement(citations, el)
             THEN ExtractPmids(
                      [k \in 1..Len(citations) |->
                          IF citations[k].element = el /\ citations[k].pmid = <<>>
                          THEN [citations[k] EXCEPT !.pmid = items[i].pmid]
                          ELSE citations[k]],
                      items, i + 1)
             ELSE ExtractPmids(Append(citations,
                                   PageCitation(<<>>, items[i].pmid, <<>>, "reference", el)),
                               items, i + 1)

\* extractReferenceDois, method 4: a link of an element without citation
RECURSIVE ExtractUrls(_, _, _)
ExtractUrls(citations, items, i) ==
    IF i > Len(items) THEN citations
    ELSE IF /\ items[i].url # <<>>
            /\ ~HasElement(citations, i)
            /\ \A k \in 1..Len(citations) : citations[k].url # items[i].url
    THEN ExtractUrls(Append(citations,
                         PageCitation(<<>>, <<>>, items[i].url, "reference", i)),
                     items, i + 1)
    ELSE ExtractUrls(citations, items, i + 1)

extractReferenceDois(items) ==
    ExtractUrls(ExtractPmids(ExtractDois(<<>>, {}, items, 1), items, 1), items, 1)

\* the loop of scanPageForDois over the citations of the reference section
RECURSIVE ScanLoop(_, _, _, _)
ScanLoop(citations, seenDois, referenceCitations, i) ==
    IF i > Len(referenceCitations) THEN citations
    ELSE LET c == referenceCitations[i]
         IN  IF c.doi # <<>> /\ c.doi \notin seenDois
             THEN ScanLoop(Append(citations, c), seenDois \cup {c.doi},
                           referenceCitations, i + 1)
             ELSE IF c.pmid # <<>>
             THEN ScanLoop(Append(citations, c), seenDois, referenceCitations, i + 1)
             ELSE IF c.url # <<>>
             THEN ScanLoop(Append(citations, c), seenDois, referenceCitations, i + 1)
             ELSE ScanLoop(citations, seenDois, referenceCitations, i + 1)

\* scanPageForDois on a page with the DOI of the current article (<<>>
\* without one) and a reference section
scanPageForDois(currentDoi, items) ==
    IF currentDoi # <<>>
    THEN ScanLoop(<<PageCitation(currentDoi, <<>>, <<>>, "current-article", 0)>>,
                  {currentDoi}, extractReferenceDois(items), 1)
    ELSE ScanLoop(<<>>, {}, extractReferenceDois(items), 1)

InitStatus ==
    /\ impl = "backend"
    /\ Idle
    /\ args \in [op : {"getMetadataBasedStatus"},
                 confidence : ConfidenceLevels,
                 discrepancies : DiscrepancyLists]
            \cup [op : {"calculateConfidence"}, discrepancies : SeverityLists]
            \cup [op : {"getCacheKey"}, a : KeyCitations, b : KeyCitations]
            \cup [op : PresentationFunctions, status : PresentedStatuses,
                  badge : Badges, banner : Banners]
            \cup [op : {"normalizeDoi"}, doi : Strings]
            \cup [op : {"scanPageForDois"}, currentDoi : {<<>>, KnownDoi},
                  items : RefSections]

GetMetadataBasedStatus ==
    /\ pc = "idle"
    /\ args.op = "getMetadataBasedStatus"
    /\ result' = getMetadataBasedStatus(args.confidence, args.discrepancies)
    /\ pc' = "returned"
    /\ UNCHANGED <<impl, citation, requests, inflight, crossrefResp, openalexResp,
                   crossrefResult, openalexResult, bestMatch, retraction, args, batchVars>>

CalculateConfidence ==
    /\ pc = "idle"
    /\ args.op = "calculateConfidence"
    /\ result' = calculateConfidence(args.discrepancies)
    /\ pc' = "returned"
    /\ UNCHANGED <<impl, citation, requests, inflight, crossrefResp, openalexResp,
                   crossrefResult, openalexResult, bestMatch, retraction, args, batchVars>>

\* the cache keys of two citations, as getCacheKey and as handleSingleCheck
\* compute them
GetCacheKey ==
    /\ pc = "idle"
    /\ args.op = "getCacheKey"
    /\ pc' = "returned"
    /\ result' = [keys |-> <<getCacheKey(args.a), getCacheKey(args.b)>>,
                  single |-> <<singleCacheKey(args.a), singleCacheKey(args.b)>>]
    /\ UNCHANGED <<impl, citation, requests, inflight, crossrefResp, openalexResp,
                   crossrefResult, openalexResult, bestMatch, retraction, args,
                   batchVars>>

\* a presentation function is called on the page
Present ==
    /\ pc = "idle"
    /\ args.op \in PresentationFunctions
    /\ pc' = "returned"
    /\ result' = IF args.op = "injectTopBanner"
                 THEN injectTopBanner(args.status, args.badge, args.banner)
                 ELSE IF args.op = "injectBadge"
                 THEN injectBadge(args.status, args.badge, args.banner)
                 ELSE updateBadge(args.status, args.badge, args.banner)
    /\ UNCHANGED <<impl, citation, requests, inflight, crossrefResp, openalexResp,
                   crossrefResult, openalexResult, bestMatch, retraction, args,
                   batchVars>>

\* the lookup normalizer and the extractor's normalizer applied to a string
NormalizeDoi ==
    /\ pc = "idle"
    /\ args.op = "normalizeDoi"
    /\ pc' = "returned"
    /\ result' = [lookup |-> normalizeDoi(args.doi),
                  freeText |-> extractorNormalizeDoi(args.doi)]
    /\ UNCHANGED <<impl, citation, requests, inflight, crossrefResp, openalexResp,
                   crossrefResult, openalexResult, bestMatch, retraction, args,
                   batchVars>>

\* scanPageForDois applied to a page
ScanPageForDois ==
    /\ pc = "idle"
    /\ args.op = "scanPageForDois"
    /\ pc' = "returned"
    /\ result' = scanPageForDois(args.currentDoi, args.items)
    /\ UNCHANGED <<impl, citation, requests, inflight, crossrefResp, openalexResp,
                   crossrefResult, openalexResult, bestMatch, retraction, args,
                   batchVars>>

NextStatus ==
    \/ GetMetadataBasedStatus
    \/ CalculateConfidence
    \/ GetCacheKey
    \/ Present
    \/ NormalizeDoi
    \/ ScanPageForDois

SpecStatus == InitStatus /\ [][NextStatus]_vars

-----------------------------------------------------------------------------
(* The extension's checkCitation with all its paths: checkByDoi for a      *)
(* citation with a DOI, checkByUrl for one with a URL only, skip without   *)
(* either.  The suspension points are the two DOI lookups and the fetch of *)
(* the URL; `requests` lists what was fetched.                             *)

CheckInputs ==
    [doi : {"", "10.1/x"}, pmid : {"", "123"}, url : {"", "https://example.org/a"},
     title : {{}, TitleFull}, authors : {<<>>}, year : {0}, journal : {{}}]

\* words that make checkUrl take a page title for an error page
NotFoundTitleWords == {"404", "error"}

\* a fetched page: whether its HTML holds a "page not found" phrase, and the
\* text of its <title> ({} without one)
Page(indicator, title) == [defined |-> TRUE, indicator |-> indicator, title |-> title]

UrlResponses ==
    {NetworkFailure, HttpError(404), HttpError(410), HttpError(500)}
        \cup {HttpOk("html", Page(i, t)) :
                 i \in BOOLEAN, t \in {{}, TitleFull, TitlePart, TitleOther, {"error"}}}

UrlResult(st, title) == [status |-> st, title |-> title]

\* checkUrl
checkUrl(resp) ==
    IF resp.kind = "throw" THEN UrlResult("error", {})
    ELSE IF resp.status = 404 \/ resp.status = 410 THEN UrlResult("not_found", {})
    ELSE IF ~ResponseOk(resp) THEN UrlResult("error", {})
    ELSE IF resp.payload.indicator THEN UrlResult("not_found", {})
    ELSE IF resp.payload.title \cap NotFoundTitleWords # {} THEN UrlResult("not_found", {})
    ELSE UrlResult("found", resp.payload.title)

\* checkByUrl after the await of checkUrl
checkByUrlAfterFetch(c, urlResult) ==
    LET similarity == stringSimilarity(c.title, urlResult.title)
        titleResult(st, severity) ==
            FullCheckResult(st, FALSE, Null,
                ValidationResponse(TRUE, ToConfidence(similarity), "none", Undefined,
                                   <<Discrepancy("title", severity)>>, st))
    IN  IF urlResult.status = "not_found"
        THEN FullCheckResult("fake-likely", FALSE, Null,
                 ValidationResponse(FALSE, 0, "none", Undefined,
                                    <<Discrepancy("url", "critical")>>, "fake-likely"))
        ELSE IF urlResult.status = "error" THEN ExtSkipResult
        ELSE IF c.title # {} /\ urlResult.title # {}
                  /\ ScoreAbove(<<3, 10>>, similarity)
        THEN titleResult("fake-likely", "critical")
        ELSE IF c.title # {} /\ urlResult.title # {}
                  /\ ScoreAbove(<<7, 10>>, similarity)
        THEN titleResult("fake-probably", "major")
        ELSE FullCheckResult("verified", FALSE, Null,
                 ValidationResponse(TRUE, 10000, "none",
                     IF urlResult.title # {}
                     THEN [defined |-> TRUE, title |-> urlResult.title, authors |-> <<>>,
                           year |-> 0, journal |-> {}]
                     ELSE Undefined,
                     <<>>, "verified"))

\* mutant: the URL is tried before the DOI
checkCitationPathUrlFirst(c) ==
    IF c.url # "" THEN "url" ELSE IF c.doi # "" THEN "doi" ELSE "skip"

\* checkCitation: "Priority 1: DOI-based validation", "Priority 2: URL-based
\* validation", otherwise skip
checkCitationPath(c) ==
    IF c.doi # "" THEN "doi" ELSE IF c.url # "" THEN "url" ELSE "skip"

InitCheck ==
    /\ impl = "extension"
    /\ Idle
    /\ args = NoArgs

\* checkCitation up to its first await
CheckCitationStarts(c) ==
    /\ pc = "idle"
    /\ citation' = c
    /\ LET path == checkCitationPath(c)
       IN  IF path = "doi"
           THEN /\ pc' = "crossref"
                /\ requests' = Append(requests, "crossref")
                /\ inflight' = inflight \cup {"crossref"}
                /\ UNCHANGED result
           ELSE IF path = "url"
           THEN /\ pc' = "url"
                /\ requests' = Append(requests, "url")
                /\ inflight' = inflight \cup {"url"}
                /\ UNCHANGED result
           ELSE /\ pc' = "returned"
                /\ result' = ExtSkipResult
                /\ UNCHANGED <<requests, inflight>>
    /\ UNCHANGED <<impl, crossrefResp, openalexResp, crossrefResult, openalexResult,
                   bestMatch, retraction, args, batchVars>>

\* the fetch of the URL completes with resp and checkByUrl resumes
UrlReplies(resp) ==
    /\ pc = "url"
    /\ pc' = "returned"
    /\ result' = checkByUrlAfterFetch(citation, checkUrl(resp))
    /\ inflight' = inflight \ {"url"}
    /\ args' = [op |-> "checkByUrl", urlResult |-> checkUrl(resp)]
    /\ UNCHANGED <<impl, citation, requests, crossrefResp, openalexResp, crossrefResult,
                   openalexResult, bestMatch, retraction, batchVars>>

NextCheck ==
    \/ pc = "idle" /\ \E c \in CheckInputs : CheckCitationStarts(c)
    \/ pc = "crossref" /\ \E resp \in CrossRefResponses : CrossRefReplies(resp)
    \/ pc = "openalex" /\ \E resp \in OpenAlexResponses : OpenAlexReplies(resp)
    \/ pc = "url" /\ \E resp \in UrlResponses : UrlReplies(resp)

SpecCheck == InitCheck /\ [][NextCheck]_vars

-----------------------------------------------------------------------------
(* The content script: scanPage records the citations of the page in the   *)
(* Map checkedCitations, sends them to the service worker in one           *)
(* CHECK_BATCH message and awaits the reply.  The suspension point is the  *)
(* await of chrome.runtime.sendMessage; the reply is a list of results, a  *)
(* reply without results, or a rejection of the promise.  One scan is      *)
(* followed to its end; `requests` lists the messages sent.                *)

\* longest list of citations scanPageForDois hands to scanPage
MaxScanned == 2

Contexts == {"reference", "current-article"}

\* the statuses of the results a reply carries
ReplyStatuses == {"verified", "retracted", "fake", "skip", "unknown"}

ReplyResult(st) == FullCheckResult(st, st = "retracted", Null, Null)

\* the citations of a page, each with the id generateId gave it
ScannedLists ==
    UNION {{[i \in 1..n |-> [id |-> generateId(1, i), context |-> f[i]]] :
               f \in [1..n -> Contexts]} : n \in 0..MaxScanned}

\* what the await of sendMessage yields for the citations sent
MessageReplies(citations) ==
    {[kind |-> "throw"], [kind |-> "reply", body |-> "undefined"],
     [kind |-> "reply", body |-> "error"]}
        \cup {[kind |-> "reply", body |-> "results",
               results |-> [i \in 1..Len(citations) |->
                               [id |-> citations[i].id, result |-> ReplyResult(f[i])]]] :
                 f \in [1..Len(citations) -> ReplyStatuses]}

\* a CheckedCitation: the citation, its checking flag, its result and the
\* badge on its element
CheckedCitation(c, checking, res, badge) ==
    [id |-> c.id, context |-> c.context, checking |-> checking, result |-> res,
     badge |-> badge]

\* the loop of scanPage over the citations: checking = true, and a
\* "checking" badge on a reference
StoreCitations(checked, citations, banner) ==
    LET ids == {citations[i].id : i \in 1..Len(citations)}
        lastOf(id) == CHOOSE i \in 1..Len(citations) :
                          /\ citations[i].id = id
                          /\ \A j \in 1..Len(citations) : citations[j].id = id => j <= i
    IN  [id \in DOMAIN checked \cup ids |->
            IF id \in ids
            THEN LET c == citations[lastOf(id)]
                 IN  CheckedCitation(c, TRUE, Null,
                         IF c.context = "reference"
                         THEN injectBadge("checking", [shown |-> FALSE], banner).badge
                         ELSE [shown |-> FALSE])
            ELSE checked[id]]

\* the catch clause of scanPage: every citation of the scan becomes unknown
MarkAllUnknown(checked, citations, banner) ==
    LET ids == {citations[i].id : i \in 1..Len(citations)}
    IN  [id \in DOMAIN checked |->
            IF id \in ids
            THEN [checked[id] EXCEPT !.checking = FALSE, !.result = UnknownResult,
                                     !.badge = updateBadge("unknown", @, banner).badge]
            ELSE checked[id]]

\* handleCheckResults: the entries of the results whose id is recorded set
\* checking = false and the result, update the badge of a reference, and
\* the last result of a current article decides the top banner
handleCheckResults(checked, results, banner) ==
    LET known == SelectSeq(results, LAMBDA e : e.id \in DOMAIN checked)
        lastOf(id) == CHOOSE i \in 1..Len(known) :
                          /\ known[i].id = id
                          /\ \A j \in 1..Len(known) : known[j].id = id => j <= i
        answered == {known[i].id : i \in 1..Len(known)}
        ofArticle == SelectSeq(known, LAMBDA e : checked[e.id].context = "current-article")
        hasRetractedCurrentArticle ==
            \E i \in 1..Len(ofArticle) : ofArticle[i].result.isRetracted
        currentArticleResult ==
            IF Len(ofArticle) = 0 THEN Null ELSE ofArticle[Len(ofArticle)].result
    IN  [checkedCitations |->
            [id \in DOMAIN checked |->
                IF id \in answered
                THEN LET res == known[lastOf(id)].result
                     IN  [checked[id] EXCEPT
                             !.checking = FALSE,
                             !.result = res,
                             !.badge = IF checked[id].context = "reference"
                                       THEN updateBadge(res.status, @, banner).badge
                                       ELSE @]
                ELSE checked[id]],
         topBanner |->
            IF currentArticleResult = Null THEN banner
            ELSE IF hasRetractedCurrentArticle
            THEN injectTopBanner("retracted", [shown |-> FALSE], banner).banner
            ELSE IF currentArticleResult.status \in {"fake", "suspicious"}
            THEN injectTopBanner(currentArticleResult.status, [shown |-> FALSE],
                                 banner).banner
            ELSE banner]

InitScan ==
    /\ impl = "extension"
    /\ Idle
    /\ args = NoArgs

\* scanPage up to the await: nothing to do without citations, otherwise the
\* citations are recorded and CHECK_BATCH is sent
ScanPage(citations) ==
    /\ pc = "idle"
    /\ args' = [op |-> "scanPage", citations |-> citations]
    /\ IF Len(citations) = 0
       THEN /\ pc' = "returned"
            /\ UNCHANGED <<checkedCitations, requests>>
       ELSE /\ pc' = "check_batch"
            /\ checkedCitations' = StoreCitations(checkedCitations, citations, topBanner)
            /\ requests' = Append(requests, "CHECK_BATCH")
    /\ UNCHANGED <<impl, citation, inflight, crossrefResp, openalexResp, crossrefResult,
                   openalexResult, result, bestMatch, retraction, resultsCache, job,
                   calls, topBanner>>

\* the await of sendMessage settles and scanPage runs to its end
CheckBatchSettles(response) ==
    /\ pc = "check_batch"
    /\ pc' = "returned"
    /\ IF response.kind = "throw"
       THEN /\ checkedCitations' =
                   MarkAllUnknown(checkedCitations, args.citations, topBanner)
            /\ UNCHANGED <<topBanner, requests>>
       ELSE IF response.body = "results"
       THEN LET page == handleCheckResults(checkedCitations, response.results, topBanner)
            IN  /\ checkedCitations' = page.checkedCitations
                /\ topBanner' = page.topBanner
                /\ requests' = Append(requests, "UPDATE_PAGE_STATUS")
       ELSE UNCHANGED <<checkedCitations, topBanner, requests>>
    /\ UNCHANGED <<impl, citation, inflight, crossrefResp, openalexResp, crossrefResult,
                   openalexResult, result, bestMatch, retraction, args, resultsCache,
                   job, calls>>

NextScan ==
    \/ pc = "idle" /\ \E citations \in ScannedLists : ScanPage(citations)
    \/ pc = "check_batch"
           /\ \E response \in MessageReplies(args.citations) : CheckBatchSettles(response)

\* the promise of sendMessage settles: the browser delivers the reply or
\* rejects the promise, so a scan that awaits is resumed
SpecScan == InitScan /\ [][NextScan]_vars /\ WF_vars(NextScan)

-----------------------------------------------------------------------------
(* Vocabulary of the properties *)

Finished == pc \in {"returned", "threw"}

\* the two implementations that work on tagged lookup outcomes
Tagged == impl \in {"backend", "extension"}

Is404(resp) == resp.kind = "http" /\ resp.status = 404

\* a 2xx answer whose body carries the expected payload
Usable(resp) == ResponseOk(resp) /\ resp.body = "object" /\ resp.payload.defined

\* an answer that settles nothing: network failure, non-404 failure status,
\* or a 2xx answer without a usable body
Indeterminate(resp) == resp # NoResponse /\ ~Is404(resp) /\ ~Usable(resp)

\* the validation record of a result: the result itself in the backend,
\* the `validation` member (possibly null) in the extension
ValidationOf(r) == IF impl = "extension" THEN r.validation ELSE r

OneDoiDiscrepancy(ds) ==
    Len(ds) = 1 /\ ds[1].field = "doi" /\ ds[1].severity = "critical"

Outcomes(p, s) == crossrefResult.status = p /\ openalexResult.status = s

-----------------------------------------------------------------------------
(* Properties *)

\* C1 (as stated): when CrossRef and OpenAlex both end in error, the result
\* has status skip, exists = false, confidence 0 and an empty discrepancy
\* list, in validateByDoi and in checkByDoi alike.
C1_BothErrorSkipRecord ==
    (Tagged /\ Finished /\ Outcomes("error", "error")) =>
        /\ pc = "returned"
        /\ result.status = "skip"
        /\ ValidationOf(result) # Null
        /\ ValidationOf(result).exists = FALSE
        /\ ValidationOf(result).confidence = 0
        /\ ValidationOf(result).discrepancies = <<>>

\* C1 (amended): when both lookups end in error the verification returns
\* status skip, never fake-likely; validateByDoi returns exists = false,
\* confidence 0 and no discrepancies, checkByDoi returns no validation
\* record at all (validation = null).
C1_BothErrorSkip ==
    (Tagged /\ Finished /\ Outcomes("error", "error")) =>
        /\ pc = "returned"
        /\ result.status = "skip"
        /\ impl = "backend" =>
              /\ result.exists = FALSE
              /\ result.confidence = 0
              /\ result.source = "none"
              /\ result.discrepancies = <<>>
        /\ impl = "extension" =>
              /\ result.validation = Null
              /\ result.isRetracted = FALSE

C1_Witness ==
    Tagged /\ pc = "returned" /\ Outcomes("error", "error") /\ result.status = "skip"

\* C2: a fake verdict (fake-likely, or the older status fake) is returned
\* only if at least one of the two lookups was answered with HTTP 404.
C2_FakeOnlyAfterNotFound ==
    (pc = "returned" /\ result.status \in {"fake-likely", "fake"}) =>
        (Is404(crossrefResp) \/ Is404(openalexResp))

\* C3: CrossRef not_found and OpenAlex error give exists = false,
\* confidence 0, exactly one critical doi discrepancy and status fake-likely.
C3_NotFoundThenErrorIsFakeLikely ==
    (Tagged /\ Finished /\ Outcomes("not_found", "error")) =>
        /\ pc = "returned"
        /\ result.status = "fake-likely"
        /\ ValidationOf(result) # Null
        /\ ValidationOf(result).exists = FALSE
        /\ ValidationOf(result).confidence = 0
        /\ OneDoiDiscrepancy(ValidationOf(result).discrepancies)

\* C4: CrossRef not_found and OpenAlex not_found give exists = false,
\* confidence 0, source none, exactly one critical doi discrepancy and
\* status fake-likely.
C4_NotFoundTwiceIsFakeLikely ==
    (Tagged /\ Finished /\ Outcomes("not_found", "not_found")) =>
        /\ pc = "returned"
        /\ result.status = "fake-likely"
        /\ ValidationOf(result) # Null
        /\ ValidationOf(result).exists = FALSE
        /\ ValidationOf(result).confidence = 0
        /\ ValidationOf(result).source = "none"
        /\ ValidationOf(result).status = "fake-likely"
        /\ OneDoiDiscrepancy(ValidationOf(result).discrepancies)

C4_Witness ==
    /\ impl = "extension" /\ pc = "returned"
    /\ Is404(crossrefResp) /\ Is404(openalexResp)
    /\ result.status = "fake-likely"

C6_FoundInCrossRefIsConclusive ==
    (Tagged /\ crossrefResult.status = "found") =>
        /\ Finished
        /\ requests = <<"crossref">>
        /\ openalexResult = NotQueried
        /\ pc = "returned"
        /\ ValidationOf(result) # Null
        /\ ValidationOf(result).exists = TRUE
        /\ ValidationOf(result).confidence = 10000
        /\ ValidationOf(result).source = "crossref"
        /\ \/ result.status = "verified"
           \/ /\ result.status = "retracted"
              /\ impl = "extension"
              /\ checkRetractionStatus(crossrefResp.payload) # Null

\* C7: when CrossRef returns not_found or error and OpenAlex returns found,
\* the result is exists = true, confidence 1.0, source openalex, carries
\* the OpenAlex record as matched data and has status verified.
C7_FoundInOpenAlexIsVerified ==
    (Tagged /\ Finished /\ crossrefResult.status \in {"not_found", "error"}
        /\ openalexResult.status = "found") =>
        /\ pc = "returned"
        /\ result.status = "verified"
        /\ ValidationOf(result) # Null
        /\ ValidationOf(result).exists = TRUE
        /\ ValidationOf(result).confidence = 10000
        /\ ValidationOf(result).source = "openalex"
        /\ ValidationOf(result).matchedData = openalexToMatchedData(openalexResp.payload)

\* C8: a fake-likely verdict is returned only after CrossRef and OpenAlex
\* have both been queried and have both answered.
C8_FakeLikelyOnlyAfterBothAnswered ==
    (Tagged /\ result # NoResult /\ result.status = "fake-likely") =>
        /\ requests = <<"crossref", "openalex">>
        /\ inflight = {}
        /\ crossrefResp # NoResponse
        /\ openalexResp # NoResponse
        /\ crossrefResult.status \in {"not_found", "error"}
        /\ openalexResult.status \in {"not_found", "error"}

C8_Witness ==
    /\ impl = "backend" /\ pc = "returned" /\ result.status = "fake-likely"
    /\ Outcomes("not_found", "error")

ExactOutcome(resp, lookup) ==
    resp # NoResponse =>
        /\ lookup.status = "not_found" <=> Is404(resp)
        /\ lookup.status = "found" <=> Usable(resp)
        /\ lookup.status = "error" <=> Indeterminate(resp)

\* C9: each source client returns not_found exactly for HTTP 404, found
\* exactly for a 2xx answer with a usable body, and error in every other
\* case.
C9_ExactOutcomeMapping ==
    Tagged =>
        /\ ExactOutcome(crossrefResp, crossrefResult)
        /\ ExactOutcome(openalexResp, openalexResult)

\* C10: an indeterminate failure at CrossRef never aborts the verification
\* with an exception: OpenAlex is queried next, and if it fails as well the
\* result is skip.
C10_PrimaryFailureFallsBack ==
    (Tagged /\ Indeterminate(crossrefResp)) =>
        /\ pc # "threw"
        /\ requests = <<"crossref", "openalex">>
        /\ (pc = "returned" /\ Indeterminate(openalexResp)) => result.status = "skip"

\* C11: within one DOI verification the request to OpenAlex is issued only
\* after the CrossRef lookup has completed with a not_found or error outcome
\* (null in the older generation, which cannot tell the two apart), and the
\* two lookups are never in flight at the same time.
C11_SecondaryOnlyAfterPrimary ==
    /\ Cardinality(inflight) <= 1
    /\ requests \in {<<>>, <<"crossref">>, <<"crossref", "openalex">>}
    /\ "crossref" \in inflight => requests = <<"crossref">>
    /\ requests = <<"crossref", "openalex">> =>
          /\ crossrefResp # NoResponse
          /\ "crossref" \notin inflight
          /\ crossrefResult.status \in {"not_found", "error", "null"}

C11_Witness ==
    /\ Tagged /\ pc = "openalex" /\ inflight = {"openalex"}
    /\ crossrefResult.status = "error"

\* a lookup that found the DOI (the older getWork returns the work itself)
FoundBySource ==
    crossrefResult.status \in {"found", "work"} \/ openalexResult.status = "found"

\* C12: when the DOI is found by either source, whatever discrepancies the
\* comparator computes, the status is verified or a retraction-type status
\* and the confidence is 1.0.
C12_DiscrepanciesNeverChangeVerdict ==
    (pc = "returned" /\ FoundBySource) =>
        /\ result.status \in {"verified", "retracted", "concern", "correction"}
        /\ ValidationOf(result) # Null
        /\ ValidationOf(result).confidence = 10000

HasUpdate(message, type) ==
    \E i \in 1..Len(message.updateTo) : message.updateTo[i] = type

\* C13: a found work with a retraction or withdrawal marker gets status
\* retracted, with an expression-of-concern marker status concern, with a
\* correction marker status correction.
C13_StatusBySignalNature ==
    (impl = "extension" /\ pc = "returned" /\ crossrefResult.status = "found") =>
        /\ (HasUpdate(crossrefResp.payload, "retraction")
              \/ HasUpdate(crossrefResp.payload, "withdrawal")) =>
                 result.status = "retracted"
        /\ HasUpdate(crossrefResp.payload, "expression-of-concern") =>
                 result.status = "concern"
        /\ HasUpdate(crossrefResp.payload, "correction") =>
                 result.status = "correction"

Emits(ds, f, s) == \E i \in 1..Len(ds) : ds[i].field = f /\ ds[i].severity = s
EmitsField(ds, f) == \E i \in 1..Len(ds) : ds[i].field = f

\* C20: for fields present on both sides the comparator emits a title
\* discrepancy iff the title similarity is below 0.9 (critical below 0.5,
\* major otherwise), a year discrepancy iff the years differ (major when
\* they differ by more than 2, minor otherwise), a major authors discrepancy
\* iff the first-author similarity is below 0.7, and a minor journal
\* discrepancy iff the journal similarity is below 0.7.
C20_ComparatorThresholds ==
    (Tagged /\ pc = "returned" /\ ValidationOf(result) # Null
        /\ ValidationOf(result).exists) =>
        LET c == citation
            m == ValidationOf(result).matchedData
            ds == ValidationOf(result).discrepancies
        IN  /\ (c.title # {} /\ m.title # {}) =>
                  LET sim == stringSimilarity(c.title, m.title)
                  IN  /\ EmitsField(ds, "title") <=> SimBelow(sim, 9)
                      /\ Emits(ds, "title", "critical") <=> SimBelow(sim, 5)
                      /\ Emits(ds, "title", "major") <=>
                            (SimBelow(sim, 9) /\ ~SimBelow(sim, 5))
            /\ (c.year # 0 /\ m.year # 0) =>
                  /\ EmitsField(ds, "year") <=> c.year # m.year
                  /\ Emits(ds, "year", "major") <=> Abs(c.year - m.year) > 2
                  /\ Emits(ds, "year", "minor") <=>
                        (c.year # m.year /\ Abs(c.year - m.year) <= 2)
            /\ (Len(c.authors) > 0 /\ Len(m.authors) > 0) =>
                  /\ Emits(ds, "authors", "major") <=>
                        SimBelow(stringSimilarity(c.authors[1], m.authors[1]), 7)
                  /\ EmitsField(ds, "authors") => Emits(ds, "authors", "major")
            /\ (c.journal # {} /\ m.journal # {}) =>
                  /\ Emits(ds, "journal", "minor") <=>
                        SimBelow(stringSimilarity(c.journal, m.journal), 7)
                  /\ EmitsField(ds, "journal") => Emits(ds, "journal", "minor")

\* the classification as the claim words it
FirstApplicableStatus(c, d) ==
    IF c >= 8000 /\ ~HasSeverity(d, "critical") /\ ~HasSeverity(d, "major") THEN "verified"
    ELSE IF Emits(d, "title", "critical") THEN "fake-likely"
    ELSE IF Emits(d, "year", "major") \/ Emits(d, "authors", "major") THEN "fake-probably"
    ELSE IF c >= 7000 THEN "verified"
    ELSE "skip"

\* C15: for every confidence c and discrepancy list d, getMetadataBasedStatus
\* returns the first applicable of: verified if c >= 0.8 and d has no
\* critical or major discrepancy; fake-likely if d has a critical title
\* discrepancy; fake-probably if d has a major discrepancy on year or on
\* authors; verified if c >= 0.7; otherwise skip.
C15_FirstApplicableRule ==
    (pc = "returned" /\ args.op = "getMetadataBasedStatus") =>
        result = FirstApplicableStatus(args.confidence, args.discrepancies)

\* the candidate the verification settled on has title similarity 0.2
BestTitleSimilarityIsFifth ==
    /\ pc = "returned"
    /\ bestMatch.defined
    /\ citation.title # {}
    /\ bestMatch.work.title # {}
    /\ LET sim == stringSimilarity(citation.title, bestMatch.work.title)
       IN  sim[1] * 5 = sim[2]

C17_AcceptedOnlyAboveThreshold ==
    pc = "returned" =>
        /\ result.exists =>
              /\ bestMatch.defined
              /\ bestMatch.score[1] * 10 > 7 * bestMatch.score[2]
              /\ result.matchedData.title = bestMatch.work.title
        /\ (~bestMatch.defined \/ bestMatch.score[1] * 10 <= 7 * bestMatch.score[2]) =>
              /\ result.status = "skip"
              /\ result.exists = FALSE
              /\ result.source = "none"
              /\ result.discrepancies = <<>>

C17_Witness ==
    /\ pc = "returned"
    /\ bestMatch.defined
    /\ bestMatch.score[1] * 10 = 7 * bestMatch.score[2]
    /\ result.status = "skip"
    /\ result.exists = FALSE

\* the list of candidates the best match was selected from
Candidates ==
    IF Len(openalexResult.works) > 0 THEN openalexResult.works ELSE crossrefResult.works

\* first-author similarity, 0 when either side names no author
FirstAuthorSimilarity(c, work) ==
    IF Len(c.authors) > 0 /\ Len(work.authors) > 0
    THEN stringSimilarity(c.authors[1], work.authors[1]) ELSE <<0, 1>>

\* 0.5 * title similarity + 0.3 * first-author similarity + 0.2 * (years equal),
\* in units of 1 / (10 * td * ad) for similarities tn/td and an/ad
WeightedScore(c, work) ==
    LET t == stringSimilarity(c.title, work.title)
        a == FirstAuthorSimilarity(c, work)
        y == IF c.year = work.year THEN 1 ELSE 0
    IN  <<5 * t[1] * a[2] + 3 * a[1] * t[2] + 2 * y * t[2] * a[2], 10 * t[2] * a[2]>>

SameScore(s1, s2) == s1[1] * s2[2] = s2[1] * s1[2]

SearchFailed(resp) ==
    /\ resp # NoResponse
    /\ \/ resp.kind = "throw"
       \/ ~ResponseOk(resp)
       \/ resp.body # "object"

\* C19: a failed search is returned as the empty list of candidates, never
\* as an error value or an exception; when the searches of both sources
\* fail, the result is skip and never a fake status.
C19_SearchFailureIsEmptyList ==
    /\ pc # "threw"
    /\ SearchFailed(openalexResp) => openalexResult = SearchResults(<<>>)
    /\ SearchFailed(crossrefResp) => crossrefResult = SearchResults(<<>>)
    /\ (pc = "returned" /\ SearchFailed(openalexResp) /\ SearchFailed(crossrefResp)) =>
          /\ result.status = "skip"
          /\ result.exists = FALSE

C19_Witness ==
    /\ pc = "returned"
    /\ requests = <<"openalex", "crossref">>
    /\ openalexResp = NetworkFailure
    /\ crossrefResp = HttpError(500)
    /\ result.status = "skip"

CountRequests(src) == Cardinality({i \in 1..Len(requests) : requests[i] = src})

\* C14: retraction detection sends no request of its own, so a check of a
\* DOI that CrossRef finds sends exactly one request to CrossRef in total.
C14_OneRequestForFoundDoi ==
    (pc = "returned" /\ crossrefResult.status = "found") =>
        /\ CountRequests("crossref") = 1
        /\ CountRequests("openalex") = 0

\* C21: the comparator produces no discrepancy for a field that is missing
\* on either side (no title, year 0, no authors, no journal), whatever the
\* other side holds.
C21_MissingFieldIsNoDiscrepancy ==
    (Tagged /\ pc = "returned" /\ ValidationOf(result) # Null
        /\ ValidationOf(result).exists) =>
        LET c == citation
            m == ValidationOf(result).matchedData
            ds == ValidationOf(result).discrepancies
        IN  /\ (c.title = {} \/ m.title = {}) => ~EmitsField(ds, "title")
            /\ (c.year = 0 \/ m.year = 0) => ~EmitsField(ds, "year")
            /\ (c.authors = <<>> \/ m.authors = <<>>) => ~EmitsField(ds, "authors")
            /\ (c.journal = {} \/ m.journal = {}) => ~EmitsField(ds, "journal")

C21_Witness ==
    /\ Tagged /\ pc = "returned" /\ result.status = "verified"
    /\ citation.year = BaseYear /\ citation.title = {} /\ citation.authors # <<>>
    /\ ValidationOf(result).matchedData.year = 0
    /\ ValidationOf(result).matchedData.title = TitleOther
    /\ ValidationOf(result).matchedData.authors = <<>>
    /\ ValidationOf(result).discrepancies = <<>>

CountSeverity(ds, sev) == Cardinality({i \in 1..Len(ds) : ds[i].severity = sev})

C23_ConfidenceWithinUnitInterval ==
    /\ pc = "returned" =>
          /\ result.confidence >= 0
          /\ result.confidence <= 10000
    /\ bestMatch.defined =>
          /\ bestMatch.score[1] >= 0
          /\ bestMatch.score[1] <= bestMatch.score[2]
          /\ (pc = "returned" /\ result.exists) =>
                result.confidence = ToConfidence(bestMatch.score)

C23_Witness ==
    /\ pc = "returned" /\ result.exists /\ result.source = "crossref"
    /\ requests = <<"openalex", "crossref">>
    /\ result.confidence > 7000 /\ result.confidence < 10000

BatchOps == {"handleBatchCheck", "batchroute", "batchCheck"}

\* a batch check called with a list the entry point accepts has ended
BatchEnded ==
    /\ pc \in {"returned", "threw"}
    /\ args.op \in BatchOps
    /\ ~(impl = "batchroute" /\ Len(args.citations) = 0)

\* C24: a batch check returns exactly one result per input and the i-th
\* result answers the i-th input: it carries the id of the i-th citation, or
\* echoes the i-th item of the route.
C24_ResultsIndexAligned ==
    (BatchEnded /\ pc = "returned") =>
        /\ Len(result.results) = Len(args.citations)
        /\ \A i \in 1..Len(args.citations) :
               /\ impl = "worker" => result.results[i].id = args.citations[i].id
               /\ impl = "batchroute" =>
                      result.results[i].input =
                          [doi |-> args.citations[i].doi,
                           title |-> args.citations[i].title]

\* the result a batch check of the service worker returned under an id
ResultOfId(id) ==
    LET k == CHOOSE k \in 1..Len(result.results) : result.results[k].id = id
    IN  result.results[k].result

\* C25: when the check of one input of a batch throws, the batch call still
\* returns; the input whose check threw gets a skip result and every other
\* input gets the status its own check produces.
C25_ThrowingInputAloneIsSkipped ==
    BatchEnded =>
        /\ pc = "returned"
        /\ impl = "worker" =>
               \A i \in 1..Len(args.citations) :
                   LET c == args.citations[i]
                   IN  /\ \E k \in 1..Len(result.results) : result.results[k].id = c.id
                       /\ ResultOfId(c.id).status =
                              IF checkCitation(c).kind = "throw" THEN "skip"
                              ELSE checkCitation(c).value.status

\* the window size the entry point is to keep
WindowLimit == IF impl = "worker" THEN BATCH_SIZE ELSE RETRACTION_BATCH_SIZE

WindowOf(k) == (k - 1) \div WindowLimit

\* C26: during a batch check at most a window of checks is pending (5 in
\* checkBatch, 10 elsewhere), the pending checks belong to one window, and
\* every check of the windows before it has completed.
C26_InFlightWithinWindow ==
    pc = "batch" =>
        /\ Cardinality(inflight) <= WindowLimit
        /\ \A j \in inflight, k \in inflight : WindowOf(j) = WindowOf(k)
        /\ \A j \in inflight, k \in 1..Len(job.toCheck) :
               WindowOf(k) < WindowOf(j) => k \in DOMAIN job.done

CountLookups(key) == Cardinality({i \in 1..Len(requests) : requests[i] = key})

\* C27: the service worker sends no source lookup for a citation whose cache
\* key holds a result (the cache only loses entries while a check is
\* pending), and one batch sends at most one source lookup per cache key.
C27_CacheShortCircuitsLookups ==
    /\ (impl = "worker" /\ pc \in {"batch", "single"}) =>
           \A i \in 1..Len(requests) : requests[i] \notin DOMAIN resultsCache
    /\ (impl = "worker" /\ pc = "batch") =>
           \A k \in 1..Len(job.toCheck) :
               getCacheKey(job.toCheck[k]) \notin DOMAIN resultsCache
    /\ args.op = "handleBatchCheck" =>
           \A i \in 1..Len(args.citations) :
               CountLookups(getCacheKey(args.citations[i])) <= 1

\* C30: a single check of a citation returns what a fresh checkCitation of
\* that citation computes from the same source answers, also when the answer
\* comes from the cache.
C30_CachedAnswerEqualsFreshAnswer ==
    (impl = "worker" /\ pc = "returned" /\ args.op = "handleSingleCheck") =>
        /\ checkCitation(args.citation).kind = "return"
        /\ result = checkCitation(args.citation).value

HasKeyField(c) == normalizeDoi(c.doi) # <<>> \/ c.pmid # <<>> \/ c.title # {}

ExpectedKey(c) ==
    IF normalizeDoi(c.doi) # <<>> THEN normalizeDoi(c.doi)
    ELSE IF c.pmid # <<>> THEN c.pmid
    ELSE c.title

\* C28: the cache key of a citation is the first non-empty of its normalized
\* DOI, its PMID and its title, in getCacheKey and in handleSingleCheck alike,
\* so two citations whose DOIs normalize to the same value have the same key.
C28_KeyIsNormalizedDoiFirst ==
    (pc = "returned" /\ args.op = "getCacheKey") =>
        /\ HasKeyField(args.a) =>
               /\ result.keys[1] = ExpectedKey(args.a)
               /\ result.single[1] = ExpectedKey(args.a)
        /\ (normalizeDoi(args.a.doi) # <<>>
                /\ normalizeDoi(args.a.doi) = normalizeDoi(args.b.doi)) =>
               /\ result.keys[1] = result.keys[2]
               /\ result.single[1] = result.single[2]

C31_NormalizeDoiIdempotent ==
    (pc = "returned" /\ args.op = "normalizeDoi") =>
        /\ normalizeDoi(result.lookup) = result.lookup
        /\ extractorNormalizeDoi(result.freeText) = result.freeText

NoDoiGiven == citation.doi \in {"", "0", "unavailable"}

\* validateByDoi asks CrossRef first, validateByMetadata asks OpenAlex first
DoiLookupMade == requests # <<>> /\ requests[1] = "crossref"

\* C32: for a citation whose DOI is empty, "0" or "unavailable" validate
\* sends no DOI lookup and does not report fake-likely for a DOI that does
\* not exist.
C32_PlaceholderDoiIsNoDoi ==
    (NoDoiGiven /\ pc # "idle") =>
        /\ ~DoiLookupMade
        /\ pc = "returned" =>
               ~(result.status = "fake-likely"
                    /\ EmitsField(result.discrepancies, "doi"))

\* C33: in the extension's checkByDoi a DOI that CrossRef did not find
\* (not_found or error) and OpenAlex found is always reported verified with
\* isRetracted = FALSE and never retracted: retraction detection runs only
\* on a work found in CrossRef.
C33_OpenAlexOnlyIsNeverRetracted ==
    (impl = "extension" /\ Finished
        /\ crossrefResult.status \in {"not_found", "error"}
        /\ openalexResult.status = "found") =>
        /\ pc = "returned"
        /\ result.status = "verified"
        /\ result.isRetracted = FALSE
        /\ result.retractionDetails = Null

\* C34: whenever validateByMetadata accepts a fuzzy match (exists = TRUE) the
\* status is verified, fake-likely or fake-probably and never skip, because
\* an accepted score is above 0.7.
C34_AcceptedMatchIsNeverSkip ==
    (pc = "returned" /\ result.exists) =>
        /\ Accepts(bestMatch)
        /\ result.confidence >= 7000
        /\ result.status \in {"verified", "fake-likely", "fake-probably"}

\* an accepted match with a major title discrepancy only passes the first
\* three tests of getMetadataBasedStatus and is verified by the last one
C34_Witness ==
    /\ pc = "returned"
    /\ result.exists
    /\ HasSeverity(result.discrepancies, "major")
    /\ result.status = "verified"

\* C35: in every result of the backend validate, exists = FALSE implies
\* source none, no matched data and status fake-likely or skip; status
\* verified implies exists = TRUE and source crossref or openalex; and every
\* skip result has an empty list of discrepancies.
C35_ValidateResultShape ==
    (impl = "backend" /\ pc = "returned") =>
        /\ ~result.exists =>
               /\ result.source = "none"
               /\ result.matchedData = Undefined
               /\ result.status \in {"fake-likely", "skip"}
        /\ result.status = "verified" =>
               /\ result.exists
               /\ result.source \in {"crossref", "openalex"}
        /\ result.status = "skip" => result.discrepancies = <<>>

\* a rejected best match: candidates were found, none is reported
C35_Witness ==
    /\ impl = "backend"
    /\ pc = "returned"
    /\ bestMatch.defined
    /\ ~result.exists
    /\ result.status = "skip"

\* C36: in fuzzy verification the OpenAlex search is queried first and the
\* CrossRef search is queried only if OpenAlex returned zero candidates; if
\* OpenAlex returns candidates whose best score is at most 0.7 the result is
\* skip and no CrossRef search is made.
C36_CrossRefSearchOnlyOnEmptyOpenAlex ==
    /\ requests \in {<<>>, <<"openalex">>, <<"openalex", "crossref">>}
    /\ Len(requests) = 2 =>
           /\ openalexResult.status = "results"
           /\ openalexResult.works = <<>>
    /\ (pc = "returned" /\ openalexResult.status = "results"
            /\ openalexResult.works # <<>>
            /\ ~ScoreAbove(findBestOpenAlexMatch(citation, openalexResult.works).score,
                            <<7, 10>>)) =>
           /\ result.status = "skip"
           /\ requests = <<"openalex">>
           /\ crossrefResult = NotQueried

\* OpenAlex returned candidates and the best of them was rejected
C36_Witness ==
    /\ pc = "returned"
    /\ openalexResult.status = "results"
    /\ Len(openalexResult.works) = MaxCandidates
    /\ ~Accepts(bestMatch)
    /\ result.status = "skip"
    /\ requests = <<"openalex">>

\* checkBatch has just come back with its results
BatchSucceeds ==
    /\ pc = "batch" /\ pc' = "returned" /\ impl = "worker"
    /\ \A k \in 1..Len(result'.results) : result'.results[k].result # UnknownResult

SingleSucceeds ==
    pc = "single" /\ pc' = "returned" /\ singleCacheKey(args.citation) # <<>>

\* the result the reply carries for the k-th citation that was checked
FreshResultOf(k) == result'.results[Len(job.results) + k].result

\* what a step of the service worker does to the result cache
CacheStep ==
    /\ BatchSucceeds =>
           \A k \in 1..Len(job.toCheck) :
               LET cacheKey == getCacheKey(job.toCheck[k])
               IN  /\ cacheKey # <<>>
                   /\ cacheKey \in DOMAIN resultsCache'
                   /\ resultsCache'[cacheKey] = FreshResultOf(k)
    /\ SingleSucceeds =>
           /\ singleCacheKey(args.citation) \in DOMAIN resultsCache'
           /\ resultsCache'[singleCacheKey(args.citation)] = result'
    /\ \A key \in DOMAIN resultsCache :
           \/ resultsCache' = EmptyCache
           \/ /\ key \in DOMAIN resultsCache'
              /\ resultsCache'[key] = resultsCache[key]
    /\ \A key \in DOMAIN resultsCache' : resultsCache'[key] # UnknownResult

\* C37: every result a successful batch or single check obtains is stored
\* in the result cache under the citation's non-empty key whatever its
\* status, and stays unchanged under that key until clearCache runs; the
\* 'unknown' results of a batch check that threw are never stored.
C37_EveryFreshResultIsCached == [][CacheStep]_vars

\* a recorded citation is still being checked / every recorded citation has
\* its result
SomeChecking ==
    \E id \in DOMAIN checkedCitations : checkedCitations[id].checking

AllChecked ==
    \A id \in DOMAIN checkedCitations :
        /\ ~checkedCitations[id].checking
        /\ checkedCitations[id].result # Null

\* C38: every citation scanPage records with checking = TRUE eventually has
\* checking = FALSE and a result, whatever the reply to CHECK_BATCH is: a
\* list of results, a reply without results, or a thrown messaging error.
C38_CheckingEventuallyEnds == SomeChecking ~> AllChecked

Fetched(what) == \E i \in 1..Len(requests) : requests[i] = what

\* C39: the extension's checkCitation takes exactly one path by priority
\* DOI, then URL: with a DOI the citation's URL is never fetched, and with
\* neither DOI nor URL (PMID-only or title-only citations) the result is
\* skip and nothing is requested.
C39_OnePathDoiThenUrl ==
    pc # "idle" =>
        /\ citation.doi # "" =>
               /\ ~Fetched("url")
               /\ requests[1] = "crossref"
        /\ (citation.doi = "" /\ citation.url # "") => requests = <<"url">>
        /\ (citation.doi = "" /\ citation.url = "") =>
               /\ pc = "returned"
               /\ result = ExtSkipResult
               /\ requests = <<>>
               /\ inflight = {}

\* a citation with both a DOI and a URL has been verified through its DOI
C39_Witness ==
    /\ pc = "returned"
    /\ citation.doi # ""
    /\ citation.url # ""
    /\ result.status = "verified"
    /\ Fetched("crossref")

\* C40: scanPageForDois never returns two citations that carry the same
\* DOI: references are de-duplicated by DOI among themselves, and no
\* reference citation of the result repeats the DOI of the current article.
C40_NoDoiTwice ==
    (pc = "returned" /\ args.op = "scanPageForDois") =>
        \A i, j \in 1..Len(result) :
            (i # j /\ result[i].doi # <<>>) => result[i].doi # result[j].doi

====
